---- MODULE Spec2Model ----
(***************************************************************************)
(* The proposal / vote-meta lifecycle of app_view: the request handlers    *)
(* of src/src/api, the relational rows of src/src/lexicon and the          *)
(* reconciliation jobs of src/src/scheduler.                               *)
(*                                                                         *)
(* The relational store is the shared state.  A request handler is one     *)
(* action.  A scheduled job is a run with a position (pc) and the locals   *)
(* the code keeps between two statements on the store; several runs of the *)
(* same job may be in flight, because the scheduler spawns one run per     *)
(* tick.  The chain, the indexers and the weight oracle are external:      *)
(* every call draws its answer from a small set.  The tables task and      *)
(* timeline are only written by these operations and are left out.         *)
(*                                                                         *)
(* Weights, tallies and budgets are u64 values of the code, beyond the     *)
(* 32 bits of TLC's integers: they are kept as sequences of base-10000     *)
(* digits, and the f64 arithmetic of the verdict is computed on them with  *)
(* the rounding of the conversion and of the division.                     *)
(***************************************************************************)
EXTENDS Integers, Sequences, FiniteSets, TLC

VARIABLES
    proposal,     \* table proposal: uri -> row
    vote_meta,    \* table vote_meta: the rows, row i has id i
    meeting,      \* table meeting: the rows, row i has id i
    whitelist,    \* table vote_whitelist: id -> row (list, root_hash)
    chain_tx,     \* the chain: tx hash -> first output of the committed transaction
    tip,          \* the chain: number of the tip block
    now,          \* wall clock, in minutes
    txrun,        \* runs of check_vote_meta_tx
    finrun,       \* runs of check_vote_meta_finished
    vote,         \* table vote: the ballots, row i has id i
    vote_tx,      \* the chain: tx hash of a ballot -> the status the node reports
    voterun       \* runs of check_vote_tx

vars == <<proposal, vote_meta, meeting, whitelist, chain_tx, tip, now, txrun, finrun,
          vote, vote_tx, voterun>>

(***************************************************************************)
(* Bounds of the model.                                                    *)
(***************************************************************************)
MaxMetas == 2
MaxMeetings == 1
MaxNow == 4
MaxTip == 1
MaxProgress == 1
MaxVotes == 2

(***************************************************************************)
(* Program constants.                                                      *)
(***************************************************************************)
GraceMinutes == 3
\* 10_000_000_000_000, 1_8500_0000_0000_0000, 6200_0000_0000_0000,
\* 3_0000_0000 and 1_0000_0000, in base-10000 digits
MinInitiationWeight == <<10, 0, 0, 0>>
Q1 == <<1, 8500, 0, 0, 0>>
Q2 == <<6200, 0, 0, 0>>
InitiationBudgetFactor == <<3, 0, 0>>
OtherBudgetFactor == <<1, 0, 0>>
AgreePctFixed == 67
AgreePctScaled == 51

\* minutes between two readings of the wall clock: enough for the grace
\* period of an unknown transaction to run out
ClockStep == GraceMinutes + 1

Uris == {"p1"}
Owner == "did:owner"
Admin == "did:admin"
Dids == {Owner, Admin}
Administrators == {Admin}
TxHashes == {"t1"}
TxRunners == {1, 2}
VoteRunners == {1, 2}
VoteTxHashes == {"b1"}
FinRunners == {1, 2}
Candidates == <<"Abstain", "Agree", "Against">>

\* the id build_vote_whitelist gives the list of the day, and the lists the
\* deposits of the day can give
Day == "2025-01-01"
WhitelistLists == { <<"h1">>, <<"h1", "h2">> }

None == << >>
Some(x) == <<x>>
IsSome(o) == o # << >>
Unwrap(o) == o[1]

(***************************************************************************)
(* Unsigned integers of the program (u64 weights, budgets and tallies) are *)
(* beyond the integers of the model checker: a number is the sequence of   *)
(* its base-10000 digits, most significant first, without leading zero     *)
(* (the groups of the literals of the code: 1_8500_0000_0000_0000 is       *)
(* <<1, 8500, 0, 0, 0>>, zero is << >>).                                   *)
(***************************************************************************)
Base == 100 * 100

Zero == << >>
One == <<1>>

\* An operator that refers several times to an intermediate value binds it
\* as the element of a singleton, CHOOSE r \in {F(v) : v \in {e}} : TRUE being
\* F(e) with e computed once.

RECURSIVE Norm(_)
Norm(x) == IF x # << >> /\ Head(x) = 0 THEN Norm(Tail(x)) ELSE x

\* digit i of x counted from the least significant one, 0 beyond its length
Digit(x, i) == IF i <= Len(x) THEN x[Len(x) + 1 - i] ELSE 0

Last(x) == x[Len(x)]

\* -1, 0, 1 as x is below, equal to, above y, from digit j on (x and y of
\* the same length)
RECURSIVE CmpDigits(_, _, _)
CmpDigits(x, y, j) ==
    IF j > Len(x) THEN 0
    ELSE IF x[j] < y[j] THEN -1
    ELSE IF x[j] > y[j] THEN 1
    ELSE CmpDigits(x, y, j + 1)

CmpLen(x, y) ==
    IF Len(x) < Len(y) THEN -1
    ELSE IF Len(x) > Len(y) THEN 1
    ELSE CmpDigits(x, y, 1)

Cmp(x, y) == CHOOSE r \in {CmpLen(a[1], a[2]) : a \in {<<x, y>>}} : TRUE

Lt(x, y) == Cmp(x, y) < 0
Geq(x, y) == Cmp(x, y) >= 0
Gt(x, y) == Cmp(x, y) > 0

\* x + y from digit i on, with the carry of the digits below it
RECURSIVE AddCarry(_, _, _, _)
AddCarry(x, y, i, carry) ==
    IF i > Len(x) /\ i > Len(y)
    THEN (IF carry = 0 THEN << >> ELSE <<carry>>)
    ELSE Append(AddCarry(x, y, i + 1, (Digit(x, i) + Digit(y, i) + carry) \div Base),
                (Digit(x, i) + Digit(y, i) + carry) % Base)

Add(x, y) ==
    CHOOSE r \in {IF a[2] = Zero THEN a[1] ELSE AddCarry(a[1], a[2], 1, 0) :
                     a \in {<<x, y>>}} : TRUE

\* x - y for x >= y, from digit i on, with the borrow of the digits below it
RECURSIVE SubBorrow(_, _, _, _)
SubBorrow(x, y, i, borrow) ==
    IF i > Len(x) THEN << >>
    ELSE Append(SubBorrow(x, y, i + 1,
                          IF Digit(x, i) - Digit(y, i) - borrow < 0 THEN 1 ELSE 0),
                (Digit(x, i) - Digit(y, i) - borrow + Base) % Base)

Sub(x, y) ==
    CHOOSE r \in {Norm(v) : v \in {SubBorrow(a[1], a[2], 1, 0) : a \in {<<x, y>>}}} : TRUE

\* x * m for a digit m (or a power of two up to 2^11), from digit i on
RECURSIVE MulDigitCarry(_, _, _, _)
MulDigitCarry(x, m, i, carry) ==
    IF i > Len(x)
    THEN (IF carry = 0 THEN << >> ELSE <<carry>>)
    ELSE Append(MulDigitCarry(x, m, i + 1, (Digit(x, i) * m + carry) \div Base),
                (Digit(x, i) * m + carry) % Base)

MulDigit(x, m) ==
    CHOOSE r \in {IF a[2] = 0 THEN Zero ELSE MulDigitCarry(a[1], a[2], 1, 0) :
                     a \in {<<x, m>>}} : TRUE

\* x * y by the digits of y, the most significant first: acc is x times the
\* digits of y before digit j
RECURSIVE MulFrom(_, _, _, _)
MulFrom(x, y, j, acc) ==
    IF j > Len(y) THEN acc
    ELSE MulFrom(x, y, j + 1, Add(Append(acc, 0), MulDigit(x, y[j])))

Mul(x, y) ==
    CHOOSE r \in {Norm(v) : v \in {MulFrom(a[1], a[2], 1, Zero) : a \in {<<x, y>>}}} : TRUE

\* <<x div d, x mod d>> for 0 < d <= 2^16, from digit j of x on
RECURSIVE DivModSmallFrom(_, _, _, _, _)
DivModSmallFrom(x, d, j, rem, quot) ==
    IF j > Len(x) THEN CHOOSE r \in {<<Norm(v), rem>> : v \in {quot}} : TRUE
    ELSE DivModSmallFrom(x, d, j + 1, (rem * Base + x[j]) % d,
                         Append(quot, (rem * Base + x[j]) \div d))

DivModSmall(x, d) ==
    CHOOSE r \in {DivModSmallFrom(a[1], a[2], 1, 0, << >>) : a \in {<<x, d>>}} : TRUE

IsOdd(x) == x # << >> /\ Last(x) % 2 = 1

TwoPow16 == Mul(<<256>>, <<256>>)
TwoPow32 == Mul(TwoPow16, TwoPow16)
TwoPow64 == Mul(TwoPow32, TwoPow32)
TwoPow53 == DivModSmall(TwoPow64, 2 ^ 11)[1]
TwoPow54 == MulDigit(TwoPow53, 2)

\* x div 2^64
High64(x) ==
    LET s == 2 ^ 16
    IN  DivModSmall(DivModSmall(DivModSmall(DivModSmall(x, s)[1], s)[1], s)[1], s)[1]

\* x mod 2^64
Low64(x) == CHOOSE r \in {Sub(v, Mul(High64(v), TwoPow64)) : v \in {x}} : TRUE

\* u64 * u64: the product when it fits; otherwise a panic in a build with
\* overflow checks (None) and the low 64 bits in a build without
U64Mul(x, y, overflow_checks) ==
    CHOOSE r \in {IF Lt(z, TwoPow64) THEN Some(z)
                 ELSE IF overflow_checks THEN None ELSE Some(Low64(z)) :
                     z \in {Mul(x, y)}} : TRUE

\* 2^53 .. 2^63: from 2^(53+j) on, a double drops j + 1 bits of a u64
Binades == [j \in 0..10 |-> MulDigit(TwoPow53, 2 ^ j)]

\* the bits of x beyond the 53 a double holds (x below 2^64)
ExcessBits(x) == Cardinality({j \in 0..10 : Geq(x, Binades[j])})

\* the quotient of qr = <<quotient, remainder>> by d, rounded to the nearest,
\* ties to the even one
RoundHalfEven(qr, d) ==
    IF qr[2] * 2 > d \/ (qr[2] * 2 = d /\ IsOdd(qr[1]))
    THEN Add(qr[1], One) ELSE qr[1]

\* x with its k lowest bits rounded away
RoundBits(x, k) ==
    IF k = 0 THEN x
    ELSE CHOOSE r \in {MulDigit(RoundHalfEven(qr, 2 ^ k), 2 ^ k) :
                          qr \in {DivModSmall(x, 2 ^ k)}} : TRUE

\* u64 as f64: the nearest double, ties to the even mantissa (the value of
\* the double, which is an integer)
AsF64(x) ==
    CHOOSE r \in {RoundBits(a[1], a[2]) : a \in {<<v, ExcessBits(v)>> : v \in {x}}} : TRUE

\* the literal pct/100 as a double in [0.5, 1): its mantissa m, the double
\* being m / 2^53
F64Literal(pct) ==
    CHOOSE r \in {RoundHalfEven(qr, 100) :
                     qr \in {DivModSmall(MulDigit(TwoPow53, pct), 100)}} : TRUE

\* x / y >= m / 2^53 on doubles, for doubles x, y that are integers, y > 0.
\* The quotient is the double nearest to the exact quotient, ties to the even
\* mantissa, so it reaches m / 2^53 when the exact quotient is above the
\* midpoint (2m - 1) / 2^54 of m and the double before it, or on it when m
\* is even.
F64DivGeq(x, y, m) ==
    CHOOSE r \in {IF IsOdd(m) THEN Gt(p[1], p[2]) ELSE Geq(p[1], p[2]) :
                     p \in {<<Mul(x, TwoPow54), Mul(Sub(MulDigit(m, 2), One), y)>>}} : TRUE

\* x / y > m / 2^53 on doubles: the quotient reaches the double after m
F64DivGt(x, y, m) ==
    CHOOSE r \in {IF IsOdd(m) THEN Geq(p[1], p[2]) ELSE Gt(p[1], p[2]) :
                     p \in {<<Mul(x, TwoPow54), Mul(Add(MulDigit(m, 2), One), y)>>}} : TRUE

(***************************************************************************)
(* ProposalState, VoteMetaState, MeetingState.                             *)
(***************************************************************************)
ProposalStates ==
    {"End", "Draft", "InitiationVote", "WaitingForStartFund", "InProgress",
     "MilestoneVote", "DelayVote", "WaitingForMilestoneFund",
     "WaitingForAcceptanceReport", "Completed", "WaitingReexamine",
     "ReexamineVote", "RectificationVote", "WaitingRectification"}

VoteStages ==
    {"InitiationVote", "MilestoneVote", "DelayVote", "ReexamineVote", "RectificationVote"}

VoteMetaStates == {"Waiting", "Committed", "Timeout", "Rejected", "Finished", "Changed"}

TxStatuses == {"Pending", "Proposed", "Committed", "Unknown", "Rejected"}

(***************************************************************************)
(* Proposal records: /data/proposalType, /data/budget, /data/milestones.   *)
(***************************************************************************)
Records ==
    { [proposalType |-> "BudgetProposal", budget |-> Some(<<10, 0>>), milestones |-> 2],
      [proposalType |-> "FundingProposal", budget |-> Some(<<10, 0>>), milestones |-> 0] }

(***************************************************************************)
(* Epochs: EpochNumberWithFraction (number, index, length).                *)
(***************************************************************************)
EpochLength == 1
VoteBlocks == 1

\* get_current_epoch and get_tip_block_number: number, index, length
CurrentEpoch(bn) ==
    [number |-> bn \div EpochLength, index |-> bn % EpochLength, length |-> EpochLength]

\* ckb.rs test_get_vote_time_range: the end of the window is the tip plus
\* VoteBlocks blocks, carried into the next epoch at most once.
TimeRangeEnd(cur) ==
    LET index == cur.index + VoteBlocks
    IN  IF index >= cur.length
        THEN [number |-> cur.number + 1, index |-> index - cur.length, length |-> cur.length]
        ELSE [number |-> cur.number, index |-> index, length |-> cur.length]

\* check_vote_finished.rs 98-101: the window has not elapsed yet.  The two
\* fractions index/length are compared as the code's f64 quotients are.
NotYetEnded(end_time, cur) ==
    \/ end_time.number > cur.number
    \/ /\ end_time.number = cur.number
       /\ end_time.index * cur.length > cur.index * end_time.length

(***************************************************************************)
(* The vote-meta payload: molecules::VoteMeta built by build_vote_meta.    *)
(***************************************************************************)
Blake2b(x) == <<"blake2b", x>>

\* the elements of a sequence
Range(list) == { list[i] : i \in 1..Len(list) }

\* a root that commits to the sequence of the updates
SmtRoot_of_sequence(list) == <<"smt", list>>

\* the root of the tree holding every listed key that decodes to 32 bytes:
\* the tree is a map from keys to values, so the root commits to the set of
\* keys and not to the order or the number of the updates
SmtRoot(list) == <<"smt", Range(list)>>

\* lexicon/vote_whitelist.rs VoteWhitelistRow as build_vote_whitelist fills
\* it: the lock hashes pushed and the root of the tree they were put in
WhitelistRow(list) == [list |-> list, root_hash |-> SmtRoot(list)]

(***************************************************************************)
(* Signed requests: SignedBody::verify_signature.                          *)
(***************************************************************************)
\* Duration::minutes(5), in seconds
SignatureWindow == 300

\* the wall clock of the server in milliseconds: `now` counts minutes from a
\* day well after 1970-01-01, and Utc::now() has a fraction of a second
ClockBase == 60 * 60 * 24
ServerMillis(minutes, fraction) == (ClockBase + minutes * 60) * 1000 + fraction
Fractions == {0, 500}

\* DateTime::from_timestamp_secs(t).unwrap_or_default(), in milliseconds.
\* A timestamp is Some(seconds), or None for an i64 chrono cannot represent,
\* which becomes 1970-01-01T00:00:00Z.
FromTimestampSecs(timestamp) ==
    IF IsSome(timestamp) THEN Unwrap(timestamp) * 1000 ELSE 0

Abs(d) == IF d < 0 THEN 0 - d ELSE d

\* what /verificationMethods/atproto of the DID document gives: the request
\* for the document fails, or the key listed (empty when the field is absent)
SigningKeys == {"did:key:zQ3sh", "did:key:zOther"}
DidDocuments == {None, Some("did:key:zQ3sh"), Some("")}

\* a signing_key_did is decoded when it has the did:key:z prefix and a
\* base58 SEC1 key behind it
DecodesToKey(signing_key_did) == signing_key_did \in SigningKeys

\* verify_signature with the window applied to timestamps of the past only
verify_signature_past_only(now_millis, body, did_doc) ==
    IF now_millis - FromTimestampSecs(body.timestamp) > SignatureWindow * 1000
    THEN "timestamp is invalid"
    ELSE IF ~IsSome(did_doc) THEN "get did doc failed"
    ELSE IF body.signing_key_did # Unwrap(did_doc) THEN "signing_key_did not match"
    ELSE IF ~DecodesToKey(body.signing_key_did) THEN "invalid signing_key_did"
    ELSE IF ~body.signature_valid THEN "verify signature failed"
    ELSE "Ok"

\* api/mod.rs SignedBody::verify_signature: Ok or the error returned
verify_signature(now_millis, body, did_doc) ==
    IF Abs(now_millis - FromTimestampSecs(body.timestamp)) > SignatureWindow * 1000
    THEN "timestamp is invalid"
    ELSE IF ~IsSome(did_doc) THEN "get did doc failed"
    ELSE IF body.signing_key_did # Unwrap(did_doc) THEN "signing_key_did not match"
    ELSE IF ~DecodesToKey(body.signing_key_did) THEN "invalid signing_key_did"
    ELSE IF ~body.signature_valid THEN "verify signature failed"
    ELSE "Ok"

(***************************************************************************)
(* The whitelist of the day and its membership proofs.                     *)
(***************************************************************************)
\* the rows of the table profile, and what the DID resolver and the deposit
\* query answer for one of them: an error, or the lock hash of the address
\* and the deposit
Profiles == {"d1", "d2"}
DepositAnswers ==
    { None,
      Some([lock_hash |-> "h1", deposit |-> 0]),
      Some([lock_hash |-> "h1", deposit |-> 1]),
      Some([lock_hash |-> "h2", deposit |-> 1]) }
DepositInputs == [Profiles -> DepositAnswers]

\* the orders in which SELECT did FROM profile (no ORDER BY) gives the rows
Enumerations == { <<"d1", "d2">>, <<"d2", "d1">> }

\* build_vote_whitelist.rs 81-114: the lock hashes pushed, in the order of
\* the enumeration, for the identities that resolve and hold a deposit > 0
RECURSIVE VoteWhitelistFrom(_, _, _)
VoteWhitelistFrom(did_list, answers, i) ==
    IF i > Len(did_list) THEN << >>
    ELSE LET answer == answers[did_list[i]]
         IN  IF IsSome(answer) /\ Unwrap(answer).deposit > 0
             THEN <<Unwrap(answer).lock_hash>> \o VoteWhitelistFrom(did_list, answers, i + 1)
             ELSE VoteWhitelistFrom(did_list, answers, i + 1)

vote_whitelist(did_list, answers) == VoteWhitelistFrom(did_list, answers, 1)

\* every list a build of the day can store
SnapshotLists ==
    { vote_whitelist(did_list, answers) :
          did_list \in Enumerations, answers \in DepositInputs }

\* the addresses a proof is asked for, and AddressParser + calc_script_hash:
\* the lock hash of an address, none for a string that does not parse
Addresses == {"ckt1-a1", "ckt1-a2", "ckt1-a3", "not-an-address"}
LockHash(ckb_addr) ==
    CASE ckb_addr = "ckt1-a1" -> Some("h1")
      [] ckb_addr = "ckt1-a2" -> Some("h2")
      [] ckb_addr = "ckt1-a3" -> Some("h3")
      [] OTHER -> None

\* smt_tree.merkle_proof(key) compiled: the path of the key, which holds what
\* the rest of the tree hashes to
merkle_proof(list, key) == [siblings |-> Range(list) \ {key}]

\* CompiledMerkleProof::verify(root, (key, SMT_VALUE)): the root computed from
\* the leaf and the path is the root given.  SMT_VALUE is not zero, so the
\* leaf is a key of the tree recomputed.
verify(proof, root, key) == <<"smt", proof.siblings \cup {key}>> = root

\* get_proof handing out the proof without the local verification
get_proof_unverified(wl, whitelist_id, ckb_addr) ==
    IF whitelist_id \notin DOMAIN wl
    THEN [ok |-> FALSE, err |-> "RowNotFound"]
    ELSE IF ~IsSome(LockHash(ckb_addr))
    THEN [ok |-> FALSE, err |-> "AddressParse"]
    ELSE [ok |-> TRUE, root |-> SmtRoot(wl[whitelist_id].list),
          proof |-> merkle_proof(wl[whitelist_id].list, Unwrap(LockHash(ckb_addr)))]

\* api/vote.rs get_proof
get_proof(wl, whitelist_id, ckb_addr) ==
    IF whitelist_id \notin DOMAIN wl
    THEN [ok |-> FALSE, err |-> "RowNotFound"]
    ELSE IF ~IsSome(LockHash(ckb_addr))
    THEN [ok |-> FALSE, err |-> "AddressParse"]
    ELSE LET row == wl[whitelist_id]
             smt_root_hash == SmtRoot(row.list)
             key == Unwrap(LockHash(ckb_addr))
             compiled_proof == merkle_proof(row.list, key)
         IN  IF verify(compiled_proof, smt_root_hash, key)
             THEN [ok |-> TRUE, root |-> smt_root_hash, proof |-> compiled_proof]
             ELSE [ok |-> FALSE, err |-> "Not in the whitelist"]

build_vote_meta(wl, row) ==
    IF row.whitelist_id \in DOMAIN wl
    THEN Some([candidates |-> row.candidates,
               smt_root_hash |-> SmtRoot(wl[row.whitelist_id].list),
               start_time |-> row.start_time,
               end_time |-> row.end_time,
               extra |-> Blake2b(row.proposal_uri)])
    ELSE None

\* a payload that differs from the canonical one in its binding hash
Tampered(bytes) == [bytes EXCEPT !.extra = Blake2b("other")]

(***************************************************************************)
(* Tally and verdict.                                                      *)
(***************************************************************************)
\* what all_votes and the weight oracle (get_weight(..).unwrap_or(0)) gave
VoteLists ==
    { << >>,
      << [ckbAddress |-> "a1", voteIndex |-> 1, weight |-> Q1] >>,
      << [ckbAddress |-> "a1", voteIndex |-> 2, weight |-> Q1] >> }

RECURSIVE TotalWeight(_)
TotalWeight(votes) ==
    IF votes = << >> THEN Zero ELSE Add(Head(votes).weight, TotalWeight(Tail(votes)))

\* the ballots whose index is one of `indices`, in order
RECURSIVE VotesFor(_, _)
VotesFor(votes, indices) ==
    IF votes = << >> THEN << >>
    ELSE (IF Head(votes).voteIndex \in indices THEN <<Head(votes)>> ELSE << >>)
         \o VotesFor(Tail(votes), indices)

\* get_weight(..).await.unwrap_or(0): the ballots with the weight the tally
\* counts, `failed` being the ballots whose weight query failed
WeightOrZero(votes, failed) ==
    IF votes = << >> THEN votes
    ELSE [j \in 1..Len(votes) |->
             [votes[j] EXCEPT !.weight = IF j \in failed THEN Zero ELSE @]]

\* the ballots of `votes` whose weight query can fail
WeightFailures(votes) == SUBSET (1..Len(votes))

\* an index taken as signed: -1 would be recognized
ValidIndices_signed(candidates) == -1..(Len(candidates) - 1)

\* vec.get_mut(vote_index as usize): a negative index wraps to a huge usize,
\* so the recognized indices are 0 .. len-1
ValidIndices(candidates) == 0..(Len(candidates) - 1)

\* check_vote_finished.rs 133-173 (candidate k of the code is entry k+1 here)
Tally(votes, candidates) ==
    LET valid == VotesFor(votes, ValidIndices(candidates))
    IN  [vote_sum |-> Len(votes),
         valid_vote_sum |-> Len(valid),
         weight_sum |-> TotalWeight(votes),
         valid_weight_sum |-> TotalWeight(valid),
         valid_votes |->
             [k \in 1..Len(candidates) |->
                 LET mine == VotesFor(votes, {k - 1})
                 IN  [j \in 1..Len(mine) |-> <<mine[j].ckbAddress, mine[j].weight>>]],
         candidate_votes |->
             [k \in 1..Len(candidates) |-> TotalWeight(VotesFor(votes, {k - 1}))]]

\* x as f64 / y as f64 >= 0.67 (0.51) and > 0.67 (0.51).  0/0 is NaN and
\* compares false; x/0 is infinite for x > 0; 0/y is 0; the conversion keeps
\* the order, so the quotient is at least 1 for x >= y.
RateAtLeast(x, y, pct) ==
    IF y = Zero THEN x # Zero
    ELSE IF x = Zero THEN FALSE
    ELSE IF Geq(x, y) THEN TRUE
    ELSE CHOOSE r \in {F64DivGeq(a[1], a[2], a[3]) :
                          a \in {<<AsF64(x), AsF64(y), F64Literal(pct)>>}} : TRUE

RateAbove(x, y, pct) ==
    IF y = Zero THEN x # Zero
    ELSE IF x = Zero THEN FALSE
    ELSE IF Geq(x, y) THEN TRUE
    ELSE CHOOSE r \in {F64DivGt(a[1], a[2], a[3]) :
                          a \in {<<AsF64(x), AsF64(y), F64Literal(pct)>>}} : TRUE

\* quorum is None when proposal_budget * factor panicked
AgreeRule(results, quorum, pct, below) ==
    IF ~IsSome(quorum) THEN "Panic"
    ELSE IF Geq(results.valid_weight_sum, Unwrap(quorum))
    THEN IF RateAtLeast(results.candidate_votes[2], results.valid_weight_sum, pct)
         THEN "Agree" ELSE "Against"
    ELSE below

AgainstRule(results, quorum, pct) ==
    IF ~IsSome(quorum) THEN "Panic"
    ELSE IF Geq(results.valid_weight_sum, Unwrap(quorum))
    THEN IF RateAbove(results.candidate_votes[3], results.valid_weight_sum, pct)
         THEN "Against" ELSE "Agree"
    ELSE "Agree"

\* api/proposal.rs calculate_vote_result, in a build with or without
\* overflow checks; "Panic" is the call that does not return
calculate_vote_result(proposal_state, record, results, overflow_checks) ==
    LET fixed == record.proposalType = "BudgetProposal"
        budget == record.budget
    IN  CASE proposal_state \in {"InitiationVote", "ReexamineVote"} ->
                IF fixed THEN AgreeRule(results, Some(Q1), AgreePctFixed, "Failed")
                ELSE IF IsSome(budget)
                     THEN AgreeRule(results,
                                    U64Mul(Unwrap(budget), InitiationBudgetFactor,
                                           overflow_checks),
                                    AgreePctScaled, "Failed")
                     ELSE "Failed"
          [] proposal_state \in {"MilestoneVote", "DelayVote"} ->
                IF fixed THEN AgainstRule(results, Some(Q2), AgreePctFixed)
                ELSE IF IsSome(budget)
                     THEN AgainstRule(results,
                                      U64Mul(Unwrap(budget), OtherBudgetFactor,
                                             overflow_checks),
                                      AgreePctScaled)
                     ELSE "Failed"
          [] proposal_state = "RectificationVote" ->
                IF fixed THEN AgreeRule(results, Some(Q2), AgreePctFixed, "Against")
                ELSE IF IsSome(budget)
                     THEN AgreeRule(results,
                                    U64Mul(Unwrap(budget), OtherBudgetFactor,
                                           overflow_checks),
                                    AgreePctScaled, "Against")
                     ELSE "Failed"
          [] OTHER -> "Failed"

\* record.pointer("/data/proposalType").and_then(|t| t.as_str()): None for a
\* record without the field (NoProposalType stands for its absence)
NoProposalType == "(none)"
proposal_type(record) ==
    IF record.proposalType = NoProposalType THEN None ELSE Some(record.proposalType)

\* api/proposal.rs vote_result
vote_result(meta, record, overflow_checks) ==
    IF IsSome(meta.results) /\ IsSome(proposal_type(record))
    THEN calculate_vote_result(meta.proposal_state, record, Unwrap(meta.results),
                               overflow_checks)
    ELSE "Voting"

(***************************************************************************)
(* The tables.                                                             *)
(***************************************************************************)
\* lexicon/proposal.rs update_state: UPDATE proposal SET state WHERE uri
update_state(p, uri, state) ==
    IF uri \in DOMAIN p THEN [p EXCEPT ![uri].state = state] ELSE p

\* lexicon/proposal.rs update_progress
update_progress(p, uri, state, progress) ==
    IF uri \in DOMAIN p
    THEN [p EXCEPT ![uri].state = state, ![uri].progress = progress]
    ELSE p

\* lexicon/proposal.rs update: the record is replaced while the proposal is
\* in Draft or in WaitingRectification, an error otherwise
update(p, record, uri) ==
    IF uri \in DOMAIN p /\ p[uri].state \in {"Draft", "WaitingRectification"}
    THEN [p EXCEPT ![uri].record = record]
    ELSE p

\* lexicon/proposal.rs has_next_milestone: the index after the current one
has_next_milestone(sample) == sample.progress + 1 < sample.record.milestones

\* lexicon/proposal.rs insert: INSERT .. ON CONFLICT (uri) DO UPDATE
insert(p, repo, record, uri) ==
    IF uri \in DOMAIN p
    THEN [p EXCEPT ![uri].repo = repo, ![uri].record = record]
    ELSE p @@ (uri :> [repo |-> repo, record |-> record, state |-> "Draft",
                       progress |-> 0, receiver_addr |-> None])

\* the rows of vote_meta a query on (proposal_uri, proposal_state, state) gives
MetaIds(uri, stage, state) ==
    { i \in 1..Len(vote_meta) :
        /\ vote_meta[i].proposal_uri = uri
        /\ vote_meta[i].proposal_state = stage
        /\ vote_meta[i].state = state }

\* the rows of meeting a query on (proposal_uri, proposal_state, Finished) gives
FinishedMeetings(uri, proposal_state) ==
    { i \in 1..Len(meeting) :
        /\ meeting[i].proposal_uri = uri
        /\ meeting[i].proposal_state = proposal_state
        /\ meeting[i].state = "Finished" }

\* api/mod.rs create_vote_tx: the table vote_meta after the call.  A row of
\* the same proposal and stage that is still Waiting is reused; otherwise a
\* row bound to the latest whitelist is inserted.
create_vote_tx(uri, stage, creator) ==
    IF MetaIds(uri, stage, "Waiting") # {}
    THEN vote_meta
    ELSE Append(vote_meta,
                [id |-> Len(vote_meta) + 1,
                 proposal_state |-> stage,
                 state |-> "Waiting",
                 tx_hash |-> None,
                 proposal_uri |-> uri,
                 whitelist_id |-> Day,
                 candidates |-> Candidates,
                 start_time |-> CurrentEpoch(tip),
                 end_time |-> TimeRangeEnd(CurrentEpoch(tip)),
                 creator |-> creator,
                 results |-> None,
                 created |-> now])

\* create_vote_tx refusing a stage that has a row in Timeout
CreateVoteTxOk_timeout_blocks(uri, stage) ==
    \/ MetaIds(uri, stage, "Waiting") # {}
    \/ /\ DOMAIN whitelist # {}
       /\ Len(vote_meta) < MaxMetas
       /\ MetaIds(uri, stage, "Timeout") = {}

\* create_vote_tx returns Ok: a row is reused, or a whitelist exists and the
\* row can be inserted
CreateVoteTxOk(uri, stage) ==
    \/ MetaIds(uri, stage, "Waiting") # {}
    \/ /\ DOMAIN whitelist # {}
       /\ Len(vote_meta) < MaxMetas

(***************************************************************************)
(* Runs of the jobs.                                                       *)
(***************************************************************************)
TxIdle == [pc |-> "idle", rows |-> << >>, meta_state |-> "-"]

\* the next iteration of `for row in rows`
TxNextRow(run) ==
    LET rest == Tail(run.rows)
    IN  [TxIdle EXCEPT !.pc = IF rest = << >> THEN "idle" ELSE "poll", !.rows = rest]

FinIdle ==
    [pc |-> "idle", rows |-> << >>, current_epoch |-> None, vote_results |-> None]

FinNextRow(run) ==
    LET rest == Tail(run.rows)
    IN  [run EXCEPT !.pc = IF rest = << >> THEN "idle" ELSE "tally",
                    !.rows = rest,
                    !.current_epoch = IF rest = << >> THEN None ELSE run.current_epoch,
                    !.vote_results = None]

\* the scheduler spawns one run per tick: a run takes the first free slot
FreeSlot(runs, r) ==
    /\ runs[r].pc = "idle"
    /\ \A q \in DOMAIN runs : q < r => runs[q].pc # "idle"

VoteIdle == [pc |-> "idle", rows |-> << >>]

\* no ballot yet, and the node has not seen a ballot's transaction
NoVotes ==
    /\ vote = << >>
    /\ vote_tx = [h \in VoteTxHashes |-> "Unknown"]
    /\ voterun = [r \in VoteRunners |-> VoteIdle]

Init ==
    /\ NoVotes
    /\ proposal = << >>
    /\ vote_meta = << >>
    /\ meeting = << >>
    /\ whitelist = << >>
    /\ chain_tx = [h \in TxHashes |-> None]
    /\ tip = 0
    /\ now = 0
    /\ txrun = [r \in TxRunners |-> TxIdle]
    /\ finrun = [r \in FinRunners |-> FinIdle]

(***************************************************************************)
(* The environment: time, the chain.                                       *)
(***************************************************************************)
Tick ==
    /\ now + ClockStep <= MaxNow
    /\ now' = now + ClockStep
    /\ UNCHANGED <<proposal, vote_meta, meeting, whitelist, chain_tx, tip, txrun, finrun,
                 vote, vote_tx, voterun>>

NewBlock ==
    /\ tip < MaxTip
    /\ tip' = tip + 1
    /\ UNCHANGED <<proposal, vote_meta, meeting, whitelist, chain_tx, now, txrun, finrun,
                 vote, vote_tx, voterun>>

(***************************************************************************)
(* Request handlers.                                                       *)
(***************************************************************************)
\* api/record.rs create and update, for a proposal record
record_create(repo, record, uri) ==
    /\ proposal' = insert(proposal, repo, record, uri)
    /\ UNCHANGED <<vote_meta, meeting, whitelist, chain_tx, tip, now, txrun, finrun,
                 vote, vote_tx, voterun>>

\* api/vote.rs build_whitelist and the daily job build_vote_whitelist
build_vote_whitelist(list) ==
    /\ whitelist' = (Day :> WhitelistRow(list))
    /\ UNCHANGED <<proposal, vote_meta, meeting, chain_tx, tip, now, txrun, finrun,
                 vote, vote_tx, voterun>>

\* api/proposal.rs update_state (debug endpoint)
api_update_state(uri, state) ==
    /\ uri \in DOMAIN proposal
    /\ proposal' = update_state(proposal, uri, state)
    /\ UNCHANGED <<vote_meta, meeting, whitelist, chain_tx, tip, now, txrun, finrun,
                 vote, vote_tx, voterun>>

\* api/proposal.rs initiation_vote
initiation_vote(did, uri, weight) ==
    /\ uri \in DOMAIN proposal
    /\ proposal[uri].repo = did
    /\ proposal[uri].state = "Draft"
    /\ FinishedMeetings(uri, "Draft") # {}
    /\ ~Lt(weight, MinInitiationWeight)
    /\ CreateVoteTxOk(uri, "InitiationVote")
    /\ vote_meta' = create_vote_tx(uri, "InitiationVote", did)
    /\ UNCHANGED <<proposal, meeting, whitelist, chain_tx, tip, now, txrun, finrun,
                 vote, vote_tx, voterun>>

\* api/proposal.rs update_receiver_addr
update_receiver_addr(did, uri, receiver_addr) ==
    /\ did \in Administrators
    /\ uri \in DOMAIN proposal
    /\ proposal[uri].state = "WaitingForStartFund"
    /\ \E i \in MetaIds(uri, "InitiationVote", "Finished"), overflow_checks \in BOOLEAN :
            vote_result(vote_meta[i], proposal[uri].record, overflow_checks) = "Agree"
    /\ proposal' = [proposal EXCEPT ![uri].receiver_addr = Some(receiver_addr),
                                    ![uri].state = "WaitingForStartFund"]
    /\ UNCHANGED <<vote_meta, meeting, whitelist, chain_tx, tip, now, txrun, finrun,
                 vote, vote_tx, voterun>>

\* api/vote.rs update_meta_tx_hash
update_meta_tx_hash(did, id, tx_hash) ==
    /\ id \in 1..Len(vote_meta)
    /\ vote_meta[id].creator = did
    /\ vote_meta' = [vote_meta EXCEPT ![id].tx_hash = Some(tx_hash)]
    /\ UNCHANGED <<proposal, meeting, whitelist, chain_tx, tip, now, txrun, finrun,
                 vote, vote_tx, voterun>>

\* api/task.rs create_meeting
create_meeting(did, uri) ==
    /\ did \in Administrators
    /\ uri \in DOMAIN proposal
    /\ Len(meeting) < MaxMeetings
    /\ meeting' = Append(meeting,
                         [id |-> Len(meeting) + 1,
                          proposal_uri |-> uri,
                          proposal_state |-> proposal[uri].state,
                          state |-> "Scheduled",
                          report |-> None,
                          creator |-> did])
    /\ UNCHANGED <<proposal, vote_meta, whitelist, chain_tx, tip, now, txrun, finrun,
                 vote, vote_tx, voterun>>

\* api/task.rs submit_meeting_report
submit_meeting_report(did, uri, meeting_id) ==
    /\ did \in Administrators
    /\ meeting_id \in 1..Len(meeting)
    /\ ~(IsSome(meeting[meeting_id].report) \/ meeting[meeting_id].state = "Finished")
    /\ uri \in DOMAIN proposal
    /\ meeting' = [meeting EXCEPT ![meeting_id].report = Some("report"),
                                  ![meeting_id].state = "Finished"]
    /\ vote_meta' =
          IF proposal[uri].state = "WaitingReexamine" /\ CreateVoteTxOk(uri, "ReexamineVote")
          THEN create_vote_tx(uri, "ReexamineVote", did)
          ELSE vote_meta
    /\ UNCHANGED <<proposal, whitelist, chain_tx, tip, now, txrun, finrun,
                 vote, vote_tx, voterun>>

\* api/task.rs submit_meeting_report: the request that passed the checks
\* returns Err, through the `?` on create_vote_tx, after Meeting::update_report
submit_meeting_report_err(uri) ==
    /\ proposal[uri].state = "WaitingReexamine"
    /\ ~CreateVoteTxOk(uri, "ReexamineVote")

\* send_funds that starts the work whatever the record declares
send_funds_always_in_progress(did, uri) ==
    /\ did \in Administrators
    /\ uri \in DOMAIN proposal
    /\ proposal[uri].state \in {"WaitingForStartFund", "WaitingForMilestoneFund"}
    /\ proposal' = update_state(proposal, uri, "InProgress")
    /\ UNCHANGED <<vote_meta, meeting, whitelist, chain_tx, tip, now, txrun, finrun,
                 vote, vote_tx, voterun>>

\* api/task.rs send_funds
send_funds(did, uri) ==
    /\ did \in Administrators
    /\ uri \in DOMAIN proposal
    /\ LET sample == proposal[uri]
       IN  CASE sample.state = "WaitingForStartFund" ->
                    proposal' =
                        IF sample.record.milestones > 0
                        THEN update_state(proposal, uri, "InProgress")
                        ELSE update_state(proposal, uri, "WaitingForAcceptanceReport")
             [] sample.state = "WaitingForMilestoneFund" ->
                    proposal' =
                        IF has_next_milestone(sample)
                        THEN update_progress(proposal, uri, "InProgress", sample.progress + 1)
                        ELSE update_state(proposal, uri, "WaitingForAcceptanceReport")
             [] OTHER -> UNCHANGED proposal
    /\ UNCHANGED <<vote_meta, meeting, whitelist, chain_tx, tip, now, txrun, finrun,
                 vote, vote_tx, voterun>>

\* api/task.rs submit_milestone_report
submit_milestone_report(did, uri) ==
    /\ did \in Administrators
    /\ uri \in DOMAIN proposal
    /\ CreateVoteTxOk(uri, "MilestoneVote")
    /\ vote_meta' = create_vote_tx(uri, "MilestoneVote", did)
    /\ UNCHANGED <<proposal, meeting, whitelist, chain_tx, tip, now, txrun, finrun,
                 vote, vote_tx, voterun>>

\* api/task.rs submit_delay_report
submit_delay_report(did, uri) ==
    /\ did \in Administrators
    /\ uri \in DOMAIN proposal
    /\ CreateVoteTxOk(uri, "DelayVote")
    /\ vote_meta' = create_vote_tx(uri, "DelayVote", did)
    /\ UNCHANGED <<proposal, meeting, whitelist, chain_tx, tip, now, txrun, finrun,
                 vote, vote_tx, voterun>>

\* api/task.rs submit_acceptance_report
submit_acceptance_report(did, uri) ==
    /\ did \in Administrators
    /\ uri \in DOMAIN proposal
    /\ proposal[uri].state = "WaitingForAcceptanceReport"
    /\ proposal' = update_state(proposal, uri, "Completed")
    /\ UNCHANGED <<vote_meta, meeting, whitelist, chain_tx, tip, now, txrun, finrun,
                 vote, vote_tx, voterun>>

\* api/task.rs rectification_vote
rectification_vote(did, uri) ==
    /\ did \in Administrators
    /\ uri \in DOMAIN proposal
    /\ proposal[uri].state = "WaitingReexamine"
    /\ FinishedMeetings(uri, "WaitingReexamine") # {}
    /\ CreateVoteTxOk(uri, "RectificationVote")
    /\ vote_meta' = create_vote_tx(uri, "RectificationVote", did)
    /\ UNCHANGED <<proposal, meeting, whitelist, chain_tx, tip, now, txrun, finrun,
                 vote, vote_tx, voterun>>

\* api/task.rs rectification: Proposal::update then Proposal::update_progress
rectification(did, uri, progress, value) ==
    /\ did \in Administrators
    /\ uri \in DOMAIN proposal
    /\ proposal[uri].state = "WaitingRectification"
    /\ proposal' = update_progress(update(proposal, value, uri),
                                   uri, "InProgress", progress)
    /\ UNCHANGED <<vote_meta, meeting, whitelist, chain_tx, tip, now, txrun, finrun,
                 vote, vote_tx, voterun>>

(***************************************************************************)
(* check_vote_meta_tx, every 10 seconds.                                   *)
(***************************************************************************)
\* what the first output of a transaction can hold: the payload the server
\* handed out for the row under some whitelist list, or something else
Payloads(row) ==
    { Unwrap(build_vote_meta((Day :> WhitelistRow(l)), row)) : l \in WhitelistLists }
        \cup { Tampered(Unwrap(build_vote_meta((Day :> WhitelistRow(<<"h1">>)), row))) }

\* the payloads of the transactions built for the rows that carry tx_hash
PayloadsOf(tx_hash) ==
    UNION { Payloads(vote_meta[i]) :
                i \in { j \in 1..Len(vote_meta) : vote_meta[j].tx_hash = Some(tx_hash) } }

\* the chain commits the transaction tx_hash; its first output is data
chain_commit(tx_hash, data) ==
    /\ chain_tx[tx_hash] = None
    /\ data \in PayloadsOf(tx_hash)
    /\ chain_tx' = [chain_tx EXCEPT ![tx_hash] = Some(data)]
    /\ UNCHANGED <<proposal, vote_meta, meeting, whitelist, tip, now, txrun, finrun,
                 vote, vote_tx, voterun>>

\* what get_transaction answers for tx_hash: a committed transaction stays
\* committed and its output never changes (the node may leave the body out);
\* before that the node reports any other status, and no output is read
ChainAnswers(tx_hash) ==
    IF IsSome(chain_tx[tx_hash])
    THEN { <<"Committed", chain_tx[tx_hash]>>, <<"Committed", None>> }
    ELSE { <<st, None>> : st \in TxStatuses \ {"Committed"} }

\* meta_state without the comparison of the bytes: a committed transaction
\* with a body makes the row Committed
meta_state_unchecked(tx_status, tx, built, elapsed) ==
    CASE tx_status = "Committed" ->
            IF IsSome(built)
            THEN IF IsSome(tx) THEN "Committed" ELSE "Changed"
            ELSE "Changed"
      [] tx_status = "Pending" -> "continue"
      [] tx_status = "Proposed" -> "continue"
      [] tx_status = "Unknown" ->
            IF elapsed > GraceMinutes THEN "Timeout" ELSE "continue"
      [] tx_status = "Rejected" -> "Rejected"

\* meta_state with the grace period ending as its last minute begins
meta_state_grace_inclusive(tx_status, tx, built, elapsed) ==
    CASE tx_status = "Committed" ->
            IF IsSome(built) /\ IsSome(tx) /\ Unwrap(tx) = Unwrap(built)
            THEN "Committed" ELSE "Changed"
      [] tx_status = "Pending" -> "continue"
      [] tx_status = "Proposed" -> "continue"
      [] tx_status = "Unknown" ->
            IF elapsed >= GraceMinutes THEN "Timeout" ELSE "continue"
      [] tx_status = "Rejected" -> "Rejected"

\* check_vote_meta_tx.rs 87-120: the state the row gets, or "continue".
\* tx is the body of the transaction (None: the node gave none), built the
\* canonical payload (None: build_vote_meta failed)
meta_state(tx_status, tx, built, elapsed) ==
    CASE tx_status = "Committed" ->
            IF IsSome(built)
            THEN IF IsSome(tx)
                 THEN IF Unwrap(tx) = Unwrap(built) THEN "Committed" ELSE "Changed"
                 ELSE "Changed"
            ELSE "Changed"
      [] tx_status = "Pending" -> "continue"
      [] tx_status = "Proposed" -> "continue"
      [] tx_status = "Unknown" ->
            IF elapsed > GraceMinutes THEN "Timeout" ELSE "continue"
      [] tx_status = "Rejected" -> "Rejected"

\* SELECT .. FROM vote_meta WHERE state = Waiting
TxSelect(r) ==
    /\ FreeSlot(txrun, r)
    /\ LET rows == SelectSeq(vote_meta, LAMBDA row : row.state = "Waiting")
       IN  /\ rows # << >>
           /\ txrun' = [txrun EXCEPT ![r] = [TxIdle EXCEPT !.pc = "poll", !.rows = rows]]
    /\ UNCHANGED <<proposal, vote_meta, meeting, whitelist, chain_tx, tip, now, finrun,
                 vote, vote_tx, voterun>>

\* a row without tx_hash, or get_transaction gave an error or nothing
TxSkip(r) ==
    /\ txrun[r].pc = "poll"
    /\ txrun' = [txrun EXCEPT ![r] = TxNextRow(txrun[r])]
    /\ UNCHANGED <<proposal, vote_meta, meeting, whitelist, chain_tx, tip, now, finrun,
                 vote, vote_tx, voterun>>

\* check_vote_meta_tx.rs 64-126: get_transaction gave a status and possibly
\* a body, build_vote_meta read the whitelist the row is bound to (db_ok: the
\* read succeeded), and the state is written: UPDATE vote_meta SET state
\* WHERE id.  The calls before the write read nothing the write depends on.
TxPoll(r, tx_status, tx, db_ok) ==
    /\ txrun[r].pc = "poll"
    /\ LET row == Head(txrun[r].rows)
           built == IF db_ok THEN build_vote_meta(whitelist, row) ELSE None
           st == meta_state(tx_status, tx, built, now - row.created)
       IN  /\ IsSome(row.tx_hash)
           /\ <<tx_status, tx>> \in ChainAnswers(Unwrap(row.tx_hash))
           /\ vote_meta' = IF st = "continue"
                           THEN vote_meta
                           ELSE [vote_meta EXCEPT ![row.id].state = st]
           /\ txrun' = [txrun EXCEPT ![r] =
                 IF st \in {"Committed", "Changed"}
                 THEN [txrun[r] EXCEPT !.pc = "proposal", !.meta_state = st]
                 ELSE TxNextRow(txrun[r])]
    /\ UNCHANGED <<proposal, meeting, whitelist, chain_tx, tip, now, finrun,
                 vote, vote_tx, voterun>>

\* check_vote_meta_tx.rs 132-208: the proposal follows the row
TxWriteProposal(r) ==
    /\ txrun[r].pc = "proposal"
    /\ LET row == Head(txrun[r].rows)
       IN  proposal' =
              IF txrun[r].meta_state = "Committed"
              THEN update_state(proposal, row.proposal_uri, row.proposal_state)
              ELSE update_state(proposal, row.proposal_uri, "End")
    /\ txrun' = [txrun EXCEPT ![r] = TxNextRow(txrun[r])]
    /\ UNCHANGED <<vote_meta, meeting, whitelist, chain_tx, tip, now, finrun,
                 vote, vote_tx, voterun>>

(***************************************************************************)
(* check_vote_meta_finished, every minute.                                 *)
(***************************************************************************)
\* VerdictState with the Failed arm of InitiationVote left out, as it is for
\* ReexamineVote
VerdictState_no_failed(stage, verdict) ==
    CASE verdict = "Agree" ->
            CASE stage = "InitiationVote" -> Some("WaitingForStartFund")
              [] stage = "MilestoneVote" -> Some("WaitingForMilestoneFund")
              [] stage = "DelayVote" -> Some("InProgress")
              [] OTHER -> None
      [] verdict = "Against" ->
            CASE stage \in {"InitiationVote", "ReexamineVote", "RectificationVote"} -> Some("End")
              [] OTHER -> None
      [] verdict = "Failed" ->
            CASE stage = "RectificationVote" -> Some("End")
              [] OTHER -> None
      [] OTHER -> None

\* check_vote_finished.rs 199-367: the state the verdict gives the proposal,
\* None where the code leaves the proposal alone
VerdictState(stage, verdict) ==
    CASE verdict = "Agree" ->
            CASE stage = "InitiationVote" -> Some("WaitingForStartFund")
              [] stage = "MilestoneVote" -> Some("WaitingForMilestoneFund")
              [] stage = "DelayVote" -> Some("InProgress")
              [] OTHER -> None
      [] verdict = "Against" ->
            CASE stage \in {"InitiationVote", "ReexamineVote", "RectificationVote"} -> Some("End")
              [] OTHER -> None
      [] verdict = "Failed" ->
            CASE stage \in {"InitiationVote", "RectificationVote"} -> Some("End")
              [] OTHER -> None
      [] OTHER -> None

\* SELECT .. WHERE state = Committed, then the tip and the current epoch
FinSelect(r) ==
    /\ FreeSlot(finrun, r)
    /\ LET rows == SelectSeq(vote_meta, LAMBDA row : row.state = "Committed")
       IN  /\ rows # << >>
           /\ finrun' = [finrun EXCEPT ![r] =
                 [FinIdle EXCEPT !.pc = "tally", !.rows = rows,
                                 !.current_epoch = Some(CurrentEpoch(tip))]]
    /\ UNCHANGED <<proposal, vote_meta, meeting, whitelist, chain_tx, tip, now, txrun,
                 vote, vote_tx, voterun>>

\* check_vote_finished.rs 98-104: the window of the row is still open
FinNotEnded(r) ==
    /\ finrun[r].pc = "tally"
    /\ NotYetEnded(Head(finrun[r].rows).end_time, Unwrap(finrun[r].current_epoch))
    /\ finrun' = [finrun EXCEPT ![r] = FinNextRow(finrun[r])]
    /\ UNCHANGED <<proposal, vote_meta, meeting, whitelist, chain_tx, tip, now, txrun,
                 vote, vote_tx, voterun>>

\* check_vote_finished.rs 122-176: all_votes, the tally, update_results
FinTally(r, votes, failed) ==
    /\ finrun[r].pc = "tally"
    /\ LET row == Head(finrun[r].rows)
       IN  /\ ~NotYetEnded(row.end_time, Unwrap(finrun[r].current_epoch))
           /\ \E vote_results \in {Tally(WeightOrZero(votes, failed), row.candidates)} :
                /\ vote_meta' = [vote_meta EXCEPT ![row.id].results = Some(vote_results),
                                                  ![row.id].state = "Finished"]
                /\ finrun' = [finrun EXCEPT ![r].pc = "verdict",
                                            ![r].vote_results = Some(vote_results)]
    /\ UNCHANGED <<proposal, meeting, whitelist, chain_tx, tip, now, txrun,
                 vote, vote_tx, voterun>>

\* check_vote_finished.rs 178-367: the proposal is read, the verdict is
\* computed and applied
FinVerdict(r) ==
    /\ finrun[r].pc = "verdict"
    /\ LET row == Head(finrun[r].rows)
       IN  /\ row.proposal_uri \in DOMAIN proposal
           /\ IsSome(proposal_type(proposal[row.proposal_uri].record))
           /\ \E overflow_checks \in BOOLEAN :
              \E verdict \in {calculate_vote_result(row.proposal_state,
                                                    proposal[row.proposal_uri].record,
                                                    Unwrap(finrun[r].vote_results),
                                                    overflow_checks)} :
                LET target == VerdictState(row.proposal_state, verdict)
                IN  /\ verdict # "Panic"
                    /\ proposal' = IF IsSome(target)
                                   THEN update_state(proposal, row.proposal_uri, Unwrap(target))
                                   ELSE proposal
    /\ finrun' = [finrun EXCEPT ![r] = FinNextRow(finrun[r])]
    /\ UNCHANGED <<vote_meta, meeting, whitelist, chain_tx, tip, now, txrun,
                 vote, vote_tx, voterun>>

\* a `?` of the run returns early: all_votes, update_results or the read of
\* the proposal failed (or the process stopped); the rest of the run is lost
FinAbort(r) ==
    /\ finrun[r].pc \in {"tally", "verdict"}
    /\ finrun' = [finrun EXCEPT ![r] = FinIdle]
    /\ UNCHANGED <<proposal, vote_meta, meeting, whitelist, chain_tx, tip, now, txrun,
                 vote, vote_tx, voterun>>

(***************************************************************************)
(* Ballots: update_vote_tx_hash and check_vote_tx, every 15 seconds.       *)
(***************************************************************************)
\* api/vote.rs update_vote_tx_hash: the ballot is inserted in state 0 with
\* the transaction hash the voter reports
update_vote_tx_hash(did, id, tx_hash, candidates_index) ==
    /\ Len(vote) < MaxVotes
    /\ vote' = Append(vote, [id |-> Len(vote) + 1,
                             state |-> "Waiting",
                             tx_hash |-> Some(tx_hash),
                             vote_meta_id |-> id,
                             candidates_index |-> candidates_index,
                             voter |-> did,
                             created |-> now])
    /\ UNCHANGED <<proposal, vote_meta, meeting, whitelist, chain_tx, tip, now, txrun, finrun,
                   vote_tx, voterun>>

\* the status the node reports for a transaction moves from unknown through
\* the pool to committed or rejected
VoteTxSteps ==
    { <<"Unknown", "Pending">>, <<"Pending", "Proposed">>, <<"Proposed", "Committed">>,
      <<"Pending", "Rejected">>, <<"Proposed", "Rejected">> }

VoteTxAdvance ==
    /\ \E h \in VoteTxHashes, step \in VoteTxSteps :
          /\ vote_tx[h] = step[1]
          /\ vote_tx' = [vote_tx EXCEPT ![h] = step[2]]
    /\ UNCHANGED <<proposal, vote_meta, meeting, whitelist, chain_tx, tip, now, txrun, finrun,
                   vote, voterun>>

\* check_vote_tx.rs 67-79: the state the ballot gets, or "continue"
vote_state(tx_status, elapsed) ==
    CASE tx_status = "Committed" -> "Committed"
      [] tx_status = "Pending" -> "continue"
      [] tx_status = "Proposed" -> "continue"
      [] tx_status = "Unknown" ->
            IF elapsed > GraceMinutes THEN "Timeout" ELSE "continue"
      [] tx_status = "Rejected" -> "Rejected"

\* SELECT id, tx_hash, created FROM vote WHERE state = Waiting
VoteSelect(r) ==
    /\ FreeSlot(voterun, r)
    /\ LET rows == SelectSeq(vote, LAMBDA row : row.state = "Waiting")
       IN  /\ rows # << >>
           /\ voterun' = [voterun EXCEPT ![r] = [pc |-> "poll", rows |-> rows]]
    /\ UNCHANGED <<proposal, vote_meta, meeting, whitelist, chain_tx, tip, now, txrun, finrun,
                   vote, vote_tx>>

\* check_vote_tx.rs 62-88, one iteration of `for (id, tx_hash, created)`:
\* get_tx_status (answered: it returned Ok), then UPDATE vote SET state
\* WHERE id (db_ok: the statement succeeded; its error is dropped)
VotePoll(r, answered, db_ok) ==
    /\ voterun[r].pc = "poll"
    /\ LET row == Head(voterun[r].rows)
           rest == Tail(voterun[r].rows)
           st == IF IsSome(row.tx_hash) /\ answered
                 THEN vote_state(vote_tx[Unwrap(row.tx_hash)], now - row.created)
                 ELSE "continue"
       IN  /\ vote' = IF st = "continue" \/ ~db_ok
                      THEN vote
                      ELSE [vote EXCEPT ![row.id].state = st]
           /\ voterun' = [voterun EXCEPT ![r] =
                 [pc |-> IF rest = << >> THEN "idle" ELSE "poll", rows |-> rest]]
    /\ UNCHANGED <<proposal, vote_meta, meeting, whitelist, chain_tx, tip, now, txrun, finrun,
                   vote_tx>>

VoteJob(runners) ==
    \/ \E r \in runners : VoteSelect(r)
    \/ \E r \in runners, answered \in BOOLEAN, db_ok \in BOOLEAN : VotePoll(r, answered, db_ok)

(***************************************************************************)
(* The specification.                                                      *)
(***************************************************************************)
DebugStates == {"WaitingReexamine", "WaitingRectification"}
MeetingStages == {"Draft", "WaitingReexamine"}
Weights == {Zero, MinInitiationWeight, Add(MinInitiationWeight, One)}

\* The requests.  The guards of the code are in the handlers; the conjuncts
\* here say when the clients send a request: a record is edited while it is
\* a draft, the debug endpoint puts a draft on the reexamination path (no
\* other operation enters it), meetings are organised for a draft and for a
\* reexamination, reports are submitted for a proposal in progress, and the
\* creator of a vote registers its transaction once.
DraftRequests ==
    \/ \E record \in Records :
          /\ "p1" \in DOMAIN proposal => proposal["p1"].state = "Draft"
          /\ record_create(Owner, record, "p1")
    \/ \E did \in Dids :
          /\ "p1" \in DOMAIN proposal /\ proposal["p1"].state \in MeetingStages
          /\ create_meeting(did, "p1")
    \/ \E did \in Dids, id \in 1..MaxMeetings : submit_meeting_report(did, "p1", id)
    \/ \E did \in Dids, id \in 1..MaxMetas, h \in TxHashes :
          /\ id \in 1..Len(vote_meta) /\ vote_meta[id].tx_hash = None
          /\ update_meta_tx_hash(did, id, h)

\* the owner names the receiver of the funds and the administrator sends them
FundRequests ==
    \/ \E did \in Dids : update_receiver_addr(did, "p1", "addr")
    \/ \E did \in Dids : send_funds(did, "p1")

\* the whitelist of the day is built, from the deposits `lists` can give
Whitelist(lists) == \E list \in lists : build_vote_whitelist(list)

\* the owner asks for the initiation vote, again after a vote that failed
InitiationVotes ==
    \E did \in Dids, weight \in Weights : initiation_vote(did, "p1", weight)

\* the owner asks for the initiation vote once
FirstInitiationVote ==
    \E did \in Dids, weight \in Weights :
        /\ vote_meta = << >>
        /\ initiation_vote(did, "p1", weight)

ProgressRequests ==
    \/ \E state \in DebugStates :
          /\ "p1" \in DOMAIN proposal /\ proposal["p1"].state = "Draft"
          /\ api_update_state("p1", state)
    \/ \E did \in Dids :
          /\ "p1" \in DOMAIN proposal /\ proposal["p1"].state = "InProgress"
          /\ submit_milestone_report(did, "p1")
    \/ \E did \in Dids :
          /\ "p1" \in DOMAIN proposal /\ proposal["p1"].state = "InProgress"
          /\ submit_delay_report(did, "p1")
    \/ \E did \in Dids : submit_acceptance_report(did, "p1")
    \/ \E did \in Dids : rectification_vote(did, "p1")
    \/ \E did \in Dids, progress \in 0..MaxProgress, value \in Records :
            rectification(did, "p1", progress, value)

\* a transaction registered for a row is committed
Commit == \E h \in TxHashes : \E data \in PayloadsOf(h) : chain_commit(h, data)

Chain ==
    \/ NewBlock
    \/ Commit

TxJob(runners) ==
    \/ \E r \in runners : TxSelect(r)
    \/ \E r \in runners : TxSkip(r)
    \/ \E r \in runners, tx_status \in TxStatuses, db_ok \in BOOLEAN :
          \E tx \in {None} \cup {chain_tx[h] : h \in TxHashes} :
              TxPoll(r, tx_status, tx, db_ok)
    \/ \E r \in runners : TxWriteProposal(r)

FinJob(runners) ==
    \/ \E r \in runners : FinSelect(r)
    \/ \E r \in runners : FinNotEnded(r)
    \/ \E r \in runners, votes \in VoteLists :
          \E failed \in WeightFailures(votes) : FinTally(r, votes, failed)
    \/ \E r \in runners : FinVerdict(r)
    \/ \E r \in runners : FinAbort(r)

\* every operation of the lifecycle; a run of a job ends before the next
\* run of the same job starts
Next ==
    \/ Whitelist({<<"h1">>})
    \/ DraftRequests
    \/ FundRequests
    \/ InitiationVotes
    \/ ProgressRequests
    \/ Chain
    \/ TxJob({1})
    \/ FinJob({1})
    \/ Tick

Spec == Init /\ [][Next]_vars

\* the initiation of a proposal, with runs of the same job that overlap (the
\* scheduler starts a run at every tick, whether the last one ended or not)
\* and a whitelist that is rebuilt during the day
OverlapNext ==
    \/ Whitelist(WhitelistLists)
    \/ DraftRequests
    \/ FundRequests
    \/ FirstInitiationVote
    \/ Chain
    \/ TxJob(TxRunners)
    \/ FinJob(FinRunners)
    \/ Tick

OverlapSpec == Init /\ [][OverlapNext]_vars

\* the organisation of the initiation vote up to the confirmation of its
\* transaction, with overlapping runs of check_vote_meta_tx and a whitelist
\* that is rebuilt during the day
TxOverlapNext ==
    \/ Whitelist(WhitelistLists)
    \/ DraftRequests
    \/ FirstInitiationVote
    \/ Commit
    \/ TxJob(TxRunners)
    \/ Tick

TxOverlapSpec == Init /\ [][TxOverlapNext]_vars

\* the initiation vote up to its verdict and the start fund, with overlapping
\* runs of check_vote_meta_finished
FinOverlapNext ==
    \/ Whitelist({<<"h1">>})
    \/ DraftRequests
    \/ FundRequests
    \/ FirstInitiationVote
    \/ Chain
    \/ TxJob({1})
    \/ FinJob(FinRunners)

FinOverlapSpec == Init /\ [][FinOverlapNext]_vars

\* the initiation of a proposal under the scheduling of the jobs: a job runs
\* again and again, so every step of a run that stays possible is taken, the
\* chain grows, time passes and the whitelist is rebuilt day after day from
\* deposits that change; no failure has to happen
FairNext ==
    \/ Whitelist(WhitelistLists)
    \/ DraftRequests
    \/ FundRequests
    \/ FirstInitiationVote
    \/ Chain
    \/ TxJob({1})
    \/ FinJob({1})
    \/ Tick

Fairness ==
    /\ WF_vars(TxJob({1}))
    /\ WF_vars(FinSelect(1))
    /\ WF_vars(FinNotEnded(1))
    /\ WF_vars(\E votes \in VoteLists :
                   \E failed \in WeightFailures(votes) : FinTally(1, votes, failed))
    /\ WF_vars(FinVerdict(1))
    /\ WF_vars(NewBlock)
    /\ WF_vars(Tick)
    /\ WF_vars(Whitelist(WhitelistLists))

FairSpec == Init /\ [][FairNext]_vars /\ Fairness

\* requests sent whatever the state of the proposal: a client edits the
\* record of a proposal that has left Draft, an administrator submits a
\* report for a proposal that is not in progress
AnyStateRequests ==
    \/ \E record \in Records : record_create(Owner, record, "p1")
    \/ \E did \in Dids : submit_milestone_report(did, "p1")
    \/ \E did \in Dids : submit_delay_report(did, "p1")

AnyStateNext ==
    \/ Whitelist({<<"h1">>})
    \/ DraftRequests
    \/ FundRequests
    \/ FirstInitiationVote
    \/ AnyStateRequests
    \/ Chain
    \/ TxJob({1})
    \/ FinJob({1})

AnyStateSpec == Init /\ [][AnyStateNext]_vars

\* The verdict on its own: a Committed vote of every stage whose window has
\* elapsed, for a record of either category, is tallied by one run of
\* check_vote_meta_finished from ballots whose weights sit on the quorum and
\* on the share thresholds.
VerdictRecords ==
    { [proposalType |-> "BudgetProposal", budget |-> Some(<<10, 0>>), milestones |-> 2],
      [proposalType |-> "FundingProposal", budget |-> Some(<<10, 0>>), milestones |-> 0],
      [proposalType |-> "FundingProposal", budget |-> Some(<<614, 8914, 6913>>),
       milestones |-> 0],
      [proposalType |-> "FundingProposal", budget |-> None, milestones |-> 0] }

Ballots(agree, against) ==
    << [ckbAddress |-> "a1", voteIndex |-> 1, weight |-> agree],
       [ckbAddress |-> "a2", voteIndex |-> 2, weight |-> against] >>

VerdictVoteLists ==
    { << >>,
      Ballots(Sub(Q1, One), Zero),
      Ballots(<<1, 2395, 0, 0, 0>>, <<6105, 0, 0, 0>>),
      Ballots(<<1, 2394, 9999, 9999, 9999>>, <<6105, 0, 0, 1>>),
      Ballots(<<2046, 0, 0, 0>>, <<4154, 0, 0, 0>>),
      Ballots(<<2046, 0, 0, 32>>, <<4154, 0, 0, 65>>),
      Ballots(<<15, 3000, 0, 0>>, <<14, 7000, 0, 0>>),
      Ballots(<<15, 2999, 9999, 9999>>, <<14, 7000, 0, 0>>),
      Ballots(<<4, 9000, 0, 0>>, <<5, 1000, 0, 0>>),
      Ballots(<<4, 9000, 0, 0>>, <<5, 1000, 0, 1>>) }

VerdictInitOf(records) ==
    \E stage \in VoteStages, record \in records :
        LET row == [id |-> 1,
                    proposal_state |-> stage,
                    state |-> "Committed",
                    tx_hash |-> Some("t1"),
                    proposal_uri |-> "p1",
                    whitelist_id |-> Day,
                    candidates |-> Candidates,
                    start_time |-> CurrentEpoch(0),
                    end_time |-> TimeRangeEnd(CurrentEpoch(0)),
                    creator |-> Owner,
                    results |-> None,
                    created |-> 0]
        IN  /\ proposal = ("p1" :> [repo |-> Owner, record |-> record, state |-> stage,
                                    progress |-> 0, receiver_addr |-> None])
            /\ vote_meta = <<row>>
            /\ meeting = << >>
            /\ whitelist = (Day :> WhitelistRow(<<"h1">>))
            /\ chain_tx = [h \in TxHashes |-> build_vote_meta(whitelist, row)]
            /\ tip = MaxTip
            /\ now = 0
            /\ txrun = [r \in TxRunners |-> TxIdle]
            /\ finrun = [r \in FinRunners |-> FinIdle]
            /\ NoVotes

VerdictInit == VerdictInitOf(VerdictRecords)

VerdictNext ==
    \/ FinSelect(1)
    \/ \E votes \in VerdictVoteLists :
          \E failed \in WeightFailures(votes) : FinTally(1, votes, failed)
    \/ FinVerdict(1)
    \/ \E did \in Dids : update_receiver_addr(did, "p1", "addr")

VerdictSpec == VerdictInit /\ [][VerdictNext]_vars

\* check_vote_meta_tx when the node and the database answer in full: a
\* committed transaction comes with its body and build_vote_meta reads the
\* whitelist, so a row becomes Changed only by the comparison of the bytes
TxJobWithBody(runners) ==
    \/ \E r \in runners : TxSelect(r)
    \/ \E r \in runners : TxSkip(r)
    \/ \E r \in runners, tx_status \in TxStatuses :
          \E tx \in {None} \cup {chain_tx[h] : h \in TxHashes} :
              /\ tx_status = "Committed" => IsSome(tx)
              /\ TxPoll(r, tx_status, tx, TRUE)
    \/ \E r \in runners : TxWriteProposal(r)

\* the registration of the vote of the initiation, with overlapping runs of
\* check_vote_meta_tx that always get the body of a committed transaction
MismatchNext ==
    \/ Whitelist(WhitelistLists)
    \/ DraftRequests
    \/ FirstInitiationVote
    \/ Commit
    \/ TxJobWithBody(TxRunners)
    \/ Tick

MismatchSpec == Init /\ [][MismatchNext]_vars

\* votes asked for again: the owner asks for the initiation vote and an
\* administrator files reports, while transactions stay unknown to the node
\* until the grace period runs out, are rejected or are committed
ReportRequests ==
    \/ submit_milestone_report(Admin, "p1")
    \/ submit_delay_report(Admin, "p1")

RetryNext ==
    \/ Whitelist({<<"h1">>})
    \/ DraftRequests
    \/ InitiationVotes
    \/ ReportRequests
    \/ Commit
    \/ TxJob({1})
    \/ Tick

RetrySpec == Init /\ [][RetryNext]_vars

\* the whitelist of the day is built again and again, from every enumeration
\* of the profiles and every answer of the resolver and the deposit query,
\* while a vote of the initiation is created and its transaction committed
SnapshotNext ==
    \/ Whitelist(SnapshotLists)
    \/ DraftRequests
    \/ FirstInitiationVote
    \/ Commit
    \/ TxJobWithBody({1})
    \/ Tick

SnapshotSpec == Init /\ [][SnapshotNext]_vars

\* the clock advances minute by minute
Minute ==
    /\ now < MaxNow
    /\ now' = now + 1
    /\ UNCHANGED <<proposal, vote_meta, meeting, whitelist, chain_tx, tip, txrun, finrun,
                 vote, vote_tx, voterun>>

\* a vote of the initiation whose transaction the node reports in every
\* status, polled by overlapping runs minute after minute
GraceNext ==
    \/ Whitelist({<<"h1">>})
    \/ DraftRequests
    \/ FirstInitiationVote
    \/ Commit
    \/ TxJob(TxRunners)
    \/ Minute

GraceSpec == Init /\ [][GraceNext]_vars

\* what create_vote_tx returns as outputsData for a row created while the
\* whitelist of the day holds h1
HandedOut(row) == Unwrap(build_vote_meta((Day :> WhitelistRow(<<"h1">>)), row))

\* the whitelist is built with h1 before the vote is created ..
FirstBuild ==
    /\ vote_meta = << >>
    /\ build_vote_whitelist(<<"h1">>)

\* .. and built again afterwards, from whatever the deposits are by then
Rebuild ==
    /\ vote_meta # << >>
    /\ Whitelist(SnapshotLists)

\* the creator sends the transaction with the bytes handed out as its first
\* output, and the chain commits it
HonestCommit ==
    \E h \in TxHashes, i \in 1..Len(vote_meta) :
        /\ vote_meta[i].tx_hash = Some(h)
        /\ chain_commit(h, HandedOut(vote_meta[i]))

HandoutNext ==
    \/ FirstBuild
    \/ Rebuild
    \/ DraftRequests
    \/ FirstInitiationVote
    \/ HonestCommit
    \/ TxJobWithBody({1})
    \/ Tick

HandoutSpec == Init /\ [][HandoutNext]_vars

\* the creator reports another transaction for a row that is no longer
\* Waiting
Retarget ==
    \E did \in Dids, id \in 1..MaxMetas :
        /\ id \in 1..Len(vote_meta)
        /\ vote_meta[id].state # "Waiting"
        /\ update_meta_tx_hash(did, id, "t2")

RetargetNext ==
    \/ Whitelist({<<"h1">>})
    \/ DraftRequests
    \/ FirstInitiationVote
    \/ Commit
    \/ TxJob({1})
    \/ Retarget
    \/ Tick

RetargetSpec == Init /\ [][RetargetNext]_vars

\* check_vote_meta_tx when the node answers every request: a row is passed
\* over only because it has no tx_hash
TxJobAnswered ==
    \/ TxSelect(1)
    \/ /\ txrun[1].pc = "poll"
       /\ ~IsSome(Head(txrun[1].rows).tx_hash)
       /\ TxSkip(1)
    \/ \E tx_status \in TxStatuses :
          \E tx \in {None} \cup {chain_tx[h] : h \in TxHashes} :
              /\ tx_status = "Committed" => IsSome(tx)
              /\ TxPoll(1, tx_status, tx, TRUE)
    \/ TxWriteProposal(1)

StuckNext ==
    \/ Whitelist({<<"h1">>})
    \/ DraftRequests
    \/ FirstInitiationVote
    \/ Commit
    \/ TxJobAnswered
    \/ Tick

\* the job runs again and again and the clock advances
StuckSpec == Init /\ [][StuckNext]_vars /\ WF_vars(TxJobAnswered) /\ WF_vars(Tick)

\* The ballots on their own: voters report the transactions of their
\* ballots, the node's view of the transactions moves on, time passes, and
\* runs of check_vote_tx start every 15 seconds whether or not the previous
\* run has returned
BallotRequests ==
    \E did \in Dids, candidates_index \in {1, 2} :
        update_vote_tx_hash(did, 1, "b1", candidates_index)

BallotNext ==
    \/ BallotRequests
    \/ VoteTxAdvance
    \/ VoteJob(VoteRunners)
    \/ Tick

BallotSpec == Init /\ [][BallotNext]_vars

\* The verdict read back by vote_result: as VerdictSpec, with a record that
\* has no /data/proposalType as well; the run that tallies such a vote ends
\* at the read of the field
ResultRecords ==
    VerdictRecords
        \cup { [proposalType |-> NoProposalType, budget |-> Some(<<10, 0>>), milestones |-> 0] }

ResultVoteLists ==
    { << >>, Ballots(Q1, Zero), Ballots(Zero, Q1), Ballots(Sub(Q1, One), Zero) }

ResultNext ==
    \/ FinSelect(1)
    \/ \E votes \in ResultVoteLists : FinTally(1, votes, {})
    \/ FinVerdict(1)
    \/ FinAbort(1)
    \/ \E did \in Dids : update_receiver_addr(did, "p1", "addr")

ResultSpec == VerdictInitOf(ResultRecords) /\ [][ResultNext]_vars

\* The tally on its own: a Committed vote whose window has elapsed is tallied
\* from ballots whose candidate index is negative, one of the three
\* candidates, or past the last candidate
TallyIndices == {-1, 0, 1, 3}
TallyWeights == {One, Q1}

TallyVoteLists ==
    LET ballot(addr, index, weight) ==
            [ckbAddress |-> addr, voteIndex |-> index, weight |-> weight]
    IN  {<< >>}
        \cup { <<ballot("a1", i, w)>> : i \in TallyIndices, w \in TallyWeights }
        \cup { <<ballot("a1", i[1], w[1]), ballot("a2", i[2], w[2])>> :
                 i \in TallyIndices \X TallyIndices, w \in TallyWeights \X TallyWeights }

TallyNext ==
    \/ FinSelect(1)
    \/ \E votes \in TallyVoteLists :
          \E failed \in WeightFailures(votes) : FinTally(1, votes, failed)
    \/ FinVerdict(1)

TallySpec == VerdictInit /\ [][TallyNext]_vars

(***************************************************************************)
(* Properties of the reconciliation jobs.                                  *)
(***************************************************************************)
TerminalMetaStates == {"Finished", "Rejected", "Timeout", "Changed"}

\* C1: a VoteMeta whose state is Finished, Rejected, Timeout or Changed keeps
\* that state at every step of every run, overlapping runs and writes that
\* land late included.
C1_TerminalVoteMetaKept ==
    [][\A i \in 1..Len(vote_meta) :
          vote_meta[i].state \in TerminalMetaStates
              => vote_meta'[i].state = vote_meta[i].state]_vars

\* the state a proposal is in when the vote of a stage is organised
StageEntry(stage) ==
    CASE stage = "InitiationVote" -> "Draft"
      [] stage \in {"MilestoneVote", "DelayVote"} -> "InProgress"
      [] stage = "ReexamineVote" -> "WaitingReexamine"
      [] stage = "RectificationVote" -> "WaitingRectification"

\* C2: a job changes the state of a proposal only from the state the
\* transition expects: a finished-run applies a verdict to a proposal that is
\* in the vote stage of the row, and a tx-run puts a proposal into a vote
\* stage only from the state the vote was organised in.
C2_JobWritesFromExpectedState ==
    [][/\ \A r \in FinRunners :
            (finrun[r].pc = "verdict" /\ FinVerdict(r) /\ proposal' # proposal)
                => LET row == Head(finrun[r].rows)
                   IN  proposal[row.proposal_uri].state = row.proposal_state
       /\ \A r \in TxRunners :
            (/\ txrun[r].pc = "proposal"
             /\ txrun[r].meta_state = "Committed"
             /\ TxWriteProposal(r)
             /\ proposal' # proposal)
                => LET row == Head(txrun[r].rows)
                   IN  proposal[row.proposal_uri].state = StageEntry(row.proposal_state)]_vars

\* C3: no two VoteMeta rows of the same proposal and stage are both in
\* Waiting or Committed.
C3_OneActiveVoteMetaPerStage ==
    \A i, j \in 1..Len(vote_meta) :
        (/\ i # j
         /\ vote_meta[i].proposal_uri = vote_meta[j].proposal_uri
         /\ vote_meta[i].proposal_state = vote_meta[j].proposal_state
         /\ vote_meta[i].state \in {"Waiting", "Committed"})
            => vote_meta[j].state \notin {"Waiting", "Committed"}

\* C4: a step of check_vote_meta_tx makes a row Committed only if the
\* transaction is reported Committed and its first output equals, byte for
\* byte, the payload rebuilt from the stored row; a transaction reported
\* Committed whose output differs, whose body is missing or whose payload
\* cannot be rebuilt makes the row Changed.
C4_CommittedOnlyOnCanonicalBytes ==
    [][\A r \in TxRunners, tx_status \in TxStatuses, db_ok \in BOOLEAN :
         \A tx \in {None} \cup {chain_tx[h] : h \in TxHashes} :
            (txrun[r].pc = "poll" /\ TxPoll(r, tx_status, tx, db_ok))
                => LET row == Head(txrun[r].rows)
                       canonical == IF db_ok THEN build_vote_meta(whitelist, row) ELSE None
                       same == /\ tx_status = "Committed"
                               /\ IsSome(tx)
                               /\ IsSome(canonical)
                               /\ Unwrap(tx) = Unwrap(canonical)
                   IN  /\ (vote_meta' # vote_meta /\ vote_meta'[row.id].state = "Committed")
                            => same
                       /\ (tx_status = "Committed" /\ ~same)
                            => vote_meta'[row.id].state = "Changed"]_vars

\* a run has just made a row Committed, and the committed output is the
\* payload of the row
C4_Witness ==
    \E r \in TxRunners :
        /\ txrun[r].pc = "proposal"
        /\ txrun[r].meta_state = "Committed"
        /\ LET row == Head(txrun[r].rows)
           IN  /\ vote_meta[row.id].state = "Committed"
               /\ chain_tx[Unwrap(row.tx_hash)] = build_vote_meta(whitelist, row)

\* C7: the step of check_vote_meta_finished that applies the verdict of an
\* InitiationVote row leaves the proposal in WaitingForStartFund when the
\* verdict is Agree and in End when it is Against or Failed.
C7_InitiationVerdict ==
    [][\A r \in FinRunners :
          (/\ finrun[r].pc = "verdict"
           /\ Head(finrun[r].rows).proposal_state = "InitiationVote"
           /\ FinVerdict(r))
              => \A overflow_checks \in BOOLEAN :
                 LET uri == Head(finrun[r].rows).proposal_uri
                     verdict == calculate_vote_result("InitiationVote",
                                                      proposal[uri].record,
                                                      Unwrap(finrun[r].vote_results),
                                                      overflow_checks)
                 IN  /\ verdict \in {"Agree", "Against", "Failed"}
                     /\ proposal'[uri].state =
                            IF verdict = "Agree" THEN "WaitingForStartFund" ELSE "End"]_vars

\* the vote of the initiation was agreed and the proposal waits for its
\* start fund
C7_Witness ==
    /\ "p1" \in DOMAIN proposal
    /\ proposal["p1"].state = "WaitingForStartFund"
    /\ \E i \in 1..Len(vote_meta) :
          /\ vote_meta[i].proposal_state = "InitiationVote"
          /\ vote_meta[i].state = "Finished"
          /\ \E overflow_checks \in BOOLEAN :
                vote_result(vote_meta[i], proposal["p1"].record, overflow_checks) = "Agree"

\* a call of the debug endpoint
DebugStep == \E uri \in Uris, state \in ProposalStates : api_update_state(uri, state)

\* C5: a proposal in End or Completed keeps its state at every step that is
\* not a call of the debug endpoint, verdicts and confirmations of votes
\* organised before the proposal ended included.
C5_EndAndCompletedAreTerminal ==
    [][\A uri \in DOMAIN proposal :
          (proposal[uri].state \in {"End", "Completed"} /\ ~DebugStep)
              => /\ uri \in DOMAIN proposal'
                 /\ proposal'[uri].state = proposal[uri].state]_vars

\* the transitions of the lifecycle
Lifecycle ==
    { <<"Draft", "InitiationVote">>,
      <<"InitiationVote", "WaitingForStartFund">>, <<"InitiationVote", "End">>,
      <<"WaitingForStartFund", "InProgress">>,
      <<"WaitingForStartFund", "WaitingForAcceptanceReport">>,
      <<"InProgress", "MilestoneVote">>, <<"InProgress", "DelayVote">>,
      <<"MilestoneVote", "WaitingForMilestoneFund">>, <<"MilestoneVote", "End">>,
      <<"DelayVote", "WaitingForMilestoneFund">>, <<"DelayVote", "End">>,
      <<"WaitingForMilestoneFund", "InProgress">>,
      <<"WaitingForMilestoneFund", "WaitingForAcceptanceReport">>,
      <<"WaitingForAcceptanceReport", "Completed">>,
      <<"WaitingReexamine", "ReexamineVote">>,
      <<"ReexamineVote", "WaitingRectification">>, <<"ReexamineVote", "End">>,
      <<"WaitingRectification", "RectificationVote">>,
      <<"RectificationVote", "InProgress">>, <<"RectificationVote", "End">> }

\* C6: every change of the state of a proposal, the debug endpoint left
\* aside, is one of the transitions of the lifecycle.
C6_OnlyLifecycleTransitions ==
    [][\A uri \in DOMAIN proposal :
          (/\ uri \in DOMAIN proposal'
           /\ proposal'[uri].state # proposal[uri].state
           /\ ~DebugStep)
              => <<proposal[uri].state, proposal'[uri].state>> \in Lifecycle]_vars

\* C8: the step that applies the verdict of a MilestoneVote or DelayVote row
\* to a proposal in that stage leaves the proposal in WaitingForMilestoneFund
\* when the verdict is Agree and in End when it is Against, and never in
\* MilestoneVote or DelayVote.
C8_MilestoneAndDelayVerdict ==
    [][\A r \in FinRunners :
          (/\ finrun[r].pc = "verdict"
           /\ Head(finrun[r].rows).proposal_state \in {"MilestoneVote", "DelayVote"}
           /\ Head(finrun[r].rows).proposal_uri \in DOMAIN proposal
           /\ proposal[Head(finrun[r].rows).proposal_uri].state
                  = Head(finrun[r].rows).proposal_state
           /\ FinVerdict(r))
              => \A overflow_checks \in BOOLEAN :
                 LET row == Head(finrun[r].rows)
                     uri == row.proposal_uri
                     verdict == calculate_vote_result(row.proposal_state,
                                                      proposal[uri].record,
                                                      Unwrap(finrun[r].vote_results),
                                                      overflow_checks)
                 IN  /\ verdict = "Agree"
                          => proposal'[uri].state = "WaitingForMilestoneFund"
                     /\ verdict = "Against" => proposal'[uri].state = "End"
                     /\ proposal'[uri].state \notin {"MilestoneVote", "DelayVote"}]_vars

\* C9: the step that applies the verdict of a ReexamineVote row to a proposal
\* in that stage leaves the proposal in WaitingRectification when the verdict
\* is Agree and in End otherwise; for a RectificationVote row, in InProgress
\* when the verdict is Agree and in End otherwise; the proposal is never left
\* in the vote stage.
C9_ReexamineAndRectificationVerdict ==
    [][\A r \in FinRunners :
          (/\ finrun[r].pc = "verdict"
           /\ Head(finrun[r].rows).proposal_state \in {"ReexamineVote", "RectificationVote"}
           /\ Head(finrun[r].rows).proposal_uri \in DOMAIN proposal
           /\ proposal[Head(finrun[r].rows).proposal_uri].state
                  = Head(finrun[r].rows).proposal_state
           /\ FinVerdict(r))
              => \A overflow_checks \in BOOLEAN :
                 LET row == Head(finrun[r].rows)
                     uri == row.proposal_uri
                     verdict == calculate_vote_result(row.proposal_state,
                                                      proposal[uri].record,
                                                      Unwrap(finrun[r].vote_results),
                                                      overflow_checks)
                 IN  /\ proposal'[uri].state =
                            IF verdict = "Agree"
                            THEN (IF row.proposal_state = "ReexamineVote"
                                  THEN "WaitingRectification" ELSE "InProgress")
                            ELSE "End"
                     /\ proposal'[uri].state \notin {"ReexamineVote", "RectificationVote"}]_vars

\* C10: under the scheduling of the jobs, every VoteMeta that has become
\* Finished is followed by the transition of its proposal, also when the run
\* that attached the tally stopped before it updated the proposal.
C10_FinishedVoteReachesProposal ==
    \A i \in 1..MaxMetas :
        (i <= Len(vote_meta) /\ vote_meta[i].state = "Finished")
            ~> ("p1" \in DOMAIN proposal
                /\ proposal["p1"].state \in {"WaitingForStartFund", "End"})

\* C11: the results attached to a VoteMeta never change afterwards: no step of
\* any operation or job run, later or concurrent, writes results of a row
\* that already carries results.
C11_ResultsNeverChange ==
    [][\A i \in 1..Len(vote_meta) :
          IsSome(vote_meta[i].results)
              => vote_meta'[i].results = vote_meta[i].results]_vars

\* C12: a VoteMeta becomes Finished only in a step taken when the epoch of
\* the tip has reached its end_time, and that step attaches results; a row in
\* any state other than Finished carries no results.
C12_FinishedOnlyAfterEndWithResults ==
    [][\A i \in 1..Len(vote_meta') :
          /\ (/\ i <= Len(vote_meta)
              /\ vote_meta[i].state # "Finished"
              /\ vote_meta'[i].state = "Finished")
                 => /\ ~NotYetEnded(vote_meta[i].end_time, CurrentEpoch(tip))
                    /\ IsSome(vote_meta'[i].results)
          /\ vote_meta'[i].state # "Finished"
                 => vote_meta'[i].results = None]_vars

\* C13: initiation_vote succeeds only for the owner of a proposal in Draft
\* with a Finished meeting and a weight above the minimum, and leaves a
\* Waiting InitiationVote VoteMeta of the proposal.
C13_InitiationVoteGuards ==
    [][\A did \in Dids, weight \in Weights :
          initiation_vote(did, "p1", weight)
              => /\ proposal["p1"].repo = did
                 /\ proposal["p1"].state = "Draft"
                 /\ \E i \in 1..Len(meeting) :
                        /\ meeting[i].proposal_uri = "p1"
                        /\ meeting[i].state = "Finished"
                 /\ Gt(weight, MinInitiationWeight)
                 /\ \E i \in 1..Len(vote_meta') :
                        /\ vote_meta'[i].proposal_uri = "p1"
                        /\ vote_meta'[i].proposal_state = "InitiationVote"
                        /\ vote_meta'[i].state = "Waiting"]_vars

\* C14: a transition request that returns an error has changed no row: a
\* submit_meeting_report that fails leaves the tables proposal, vote_meta and
\* meeting as they were.
C14_FailedRequestChangesNothing ==
    [][\A did \in Dids, meeting_id \in 1..MaxMeetings :
          (submit_meeting_report(did, "p1", meeting_id) /\ submit_meeting_report_err("p1"))
              => UNCHANGED <<proposal, vote_meta, meeting>>]_vars

\* C15: a request issued while the proposal is not in its source state has
\* no effect: send_funds outside WaitingForStartFund and
\* WaitingForMilestoneFund, submit_milestone_report and submit_delay_report
\* outside InProgress change no row and create no VoteMeta.
C15_OutOfStateRequestRejected ==
    [][\A did \in Dids :
          /\ (/\ send_funds(did, "p1")
              /\ proposal["p1"].state
                     \notin {"WaitingForStartFund", "WaitingForMilestoneFund"})
                 => UNCHANGED <<proposal, vote_meta, meeting>>
          /\ (/\ submit_milestone_report(did, "p1") \/ submit_delay_report(did, "p1")
              /\ proposal["p1"].state # "InProgress")
                 => UNCHANGED <<proposal, vote_meta, meeting>>]_vars

\* C16: a proposal goes from WaitingRectification to InProgress only when a
\* RectificationVote VoteMeta of the proposal is Finished with verdict Agree,
\* and a RectificationVote VoteMeta is created only for a proposal in
\* WaitingRectification.
C16_RectificationNeedsVote ==
    [][/\ (/\ "p1" \in DOMAIN proposal
           /\ proposal["p1"].state = "WaitingRectification"
           /\ proposal'["p1"].state = "InProgress")
              => \E i \in MetaIds("p1", "RectificationVote", "Finished"),
                    overflow_checks \in BOOLEAN :
                     vote_result(vote_meta[i], proposal["p1"].record, overflow_checks)
                         = "Agree"
       /\ \A i \in (Len(vote_meta) + 1)..Len(vote_meta') :
              vote_meta'[i].proposal_state = "RectificationVote"
                  => proposal[vote_meta'[i].proposal_uri].state = "WaitingRectification"]_vars

\* C17: the progress of a proposal changes only in a send_funds step on a
\* proposal in WaitingForMilestoneFund, and it never decreases.
C17_ProgressOnlyBySendFunds ==
    [][("p1" \in DOMAIN proposal /\ proposal'["p1"].progress # proposal["p1"].progress)
          => /\ proposal["p1"].state = "WaitingForMilestoneFund"
             /\ \E did \in Dids : send_funds(did, "p1")
             /\ proposal'["p1"].progress > proposal["p1"].progress]_vars

\* C18: the record of a proposal changes only in a step taken while the
\* proposal is in Draft or in WaitingRectification.
C18_RecordFrozenOutsideDraft ==
    [][("p1" \in DOMAIN proposal /\ proposal'["p1"].record # proposal["p1"].record)
          => proposal["p1"].state \in {"Draft", "WaitingRectification"}]_vars

\* the quorum and the shares of a tally, in exact arithmetic
ExactQuorum(record, fixed_quorum, factor) ==
    IF record.proposalType = "BudgetProposal" THEN fixed_quorum
    ELSE Mul(Unwrap(record.budget), factor)

SharePct(record) ==
    IF record.proposalType = "BudgetProposal" THEN AgreePctFixed ELSE AgreePctScaled

\* x / y >= pct / 100 and x / y > pct / 100, y > 0
ShareAtLeast(x, y, pct) == Geq(MulDigit(x, 100), MulDigit(y, pct))
ShareAbove(x, y, pct) == Gt(MulDigit(x, 100), MulDigit(y, pct))

ReadableBudget(record) == record.proposalType = "BudgetProposal" \/ IsSome(record.budget)

\* C19: for a tally of an InitiationVote or ReexamineVote, the verdict is
\* Failed exactly when valid_weight_sum is below the quorum (Q1 for the
\* fixed-quorum category, 3 x budget for the budget-scaled one), otherwise
\* Agree exactly when the agree share is at least 67% (51%), otherwise Against.
C19_AgreeRuleVerdict ==
    \A i \in 1..Len(vote_meta), overflow_checks \in BOOLEAN :
        (/\ vote_meta[i].proposal_state \in {"InitiationVote", "ReexamineVote"}
         /\ IsSome(vote_meta[i].results)
         /\ ReadableBudget(proposal["p1"].record))
            => LET record == proposal["p1"].record
                   results == Unwrap(vote_meta[i].results)
                   valid == results.valid_weight_sum
                   quorum == ExactQuorum(record, Q1, InitiationBudgetFactor)
                   verdict == calculate_vote_result(vote_meta[i].proposal_state, record,
                                                    results, overflow_checks)
               IN  verdict =
                      IF Lt(valid, quorum) THEN "Failed"
                      ELSE IF ShareAtLeast(results.candidate_votes[2], valid, SharePct(record))
                      THEN "Agree" ELSE "Against"

\* C20: for a tally of a MilestoneVote or DelayVote and a readable budget, the
\* verdict is Against exactly when valid_weight_sum reaches the quorum (Q2
\* for the fixed-quorum category, 1 x budget for the budget-scaled one) and
\* the against share is strictly above 67% (51%); otherwise it is Agree.
C20_AgainstRuleVerdict ==
    \A i \in 1..Len(vote_meta), overflow_checks \in BOOLEAN :
        (/\ vote_meta[i].proposal_state \in {"MilestoneVote", "DelayVote"}
         /\ IsSome(vote_meta[i].results)
         /\ ReadableBudget(proposal["p1"].record))
            => LET record == proposal["p1"].record
                   results == Unwrap(vote_meta[i].results)
                   valid == results.valid_weight_sum
                   quorum == ExactQuorum(record, Q2, OtherBudgetFactor)
                   verdict == calculate_vote_result(vote_meta[i].proposal_state, record,
                                                    results, overflow_checks)
               IN  verdict =
                      IF /\ Geq(valid, quorum)
                         /\ ShareAbove(results.candidate_votes[3], valid, SharePct(record))
                      THEN "Against" ELSE "Agree"

\* C21: for a tally of a RectificationVote and a readable budget, the verdict
\* is Agree exactly when valid_weight_sum reaches the quorum (Q2 for the
\* fixed-quorum category, 1 x budget for the budget-scaled one) and the agree
\* share is at least 67% (51%); otherwise it is Against.
C21_RectificationRuleVerdict ==
    \A i \in 1..Len(vote_meta), overflow_checks \in BOOLEAN :
        (/\ vote_meta[i].proposal_state = "RectificationVote"
         /\ IsSome(vote_meta[i].results)
         /\ ReadableBudget(proposal["p1"].record))
            => LET record == proposal["p1"].record
                   results == Unwrap(vote_meta[i].results)
                   valid == results.valid_weight_sum
                   quorum == ExactQuorum(record, Q2, OtherBudgetFactor)
                   verdict == calculate_vote_result("RectificationVote", record,
                                                    results, overflow_checks)
               IN  verdict =
                      IF /\ Geq(valid, quorum)
                         /\ ShareAtLeast(results.candidate_votes[2], valid, SharePct(record))
                      THEN "Agree" ELSE "Against"

\* C22: a VoteMeta that became Changed stays Changed (no later poll takes the
\* attempt up again), and the step of check_vote_meta_tx that writes the
\* proposal for a row found Changed does not put the proposal in the stage
\* the row was voting for; nor does any step for a row that is Changed.
C22_ChangedIsFinal ==
    [][/\ \A i \in 1..Len(vote_meta) :
             vote_meta[i].state = "Changed" => vote_meta'[i].state = "Changed"
       /\ \A r \in TxRunners :
             (/\ TxWriteProposal(r)
              /\ \/ txrun[r].meta_state = "Changed"
                 \/ vote_meta[Head(txrun[r].rows).id].state = "Changed")
                => LET row == Head(txrun[r].rows)
                   IN  proposal'[row.proposal_uri].state # row.proposal_state]_vars

\* C23: a run of check_vote_meta_finished in which the weight query of a
\* ballot fails leaves the row as it was: no state change, no results, no
\* change of the proposal (the row is taken up again by the next run).
C23_OracleFailureSkipsRecord ==
    [][\A r \in FinRunners, votes \in VoteLists :
          \A failed \in WeightFailures(votes) :
             (failed # {} /\ FinTally(r, votes, failed))
                => UNCHANGED <<vote_meta, proposal>>]_vars

\* the step appends a row for `stage` in Waiting, without transaction and
\* without results, and leaves every other row as it was
FreshVoteMeta(stage) ==
    /\ Len(vote_meta') = Len(vote_meta) + 1
    /\ SubSeq(vote_meta', 1, Len(vote_meta)) = vote_meta
    /\ LET row == vote_meta'[Len(vote_meta')]
       IN  /\ row.id = Len(vote_meta')
           /\ row.proposal_uri = "p1"
           /\ row.proposal_state = stage
           /\ row.state = "Waiting"
           /\ row.tx_hash = None
           /\ row.results = None

\* a VoteMeta of p1 for `stage` has timed out, none is waiting, a whitelist
\* exists and the table has room for a row
TimedOut(stage) ==
    /\ MetaIds("p1", stage, "Timeout") # {}
    /\ MetaIds("p1", stage, "Waiting") = {}
    /\ DOMAIN whitelist # {}
    /\ Len(vote_meta) < MaxMetas

\* C24: once a VoteMeta of p1 for a stage is in Timeout, a request that asks
\* for the vote of that stage again and passes the checks of its handler
\* (initiation_vote: owner, Draft, finished meeting, weight; the reports:
\* administrator) is accepted and appends a fresh row in Waiting; the
\* timed-out row is not reused and not changed.
C24_FreshVoteAfterTimeout ==
    /\ TimedOut("InitiationVote") =>
          \A did \in Dids, weight \in Weights :
             (/\ proposal["p1"].repo = did
              /\ proposal["p1"].state = "Draft"
              /\ FinishedMeetings("p1", "Draft") # {}
              /\ Geq(weight, MinInitiationWeight))
                => ENABLED (initiation_vote(did, "p1", weight)
                               /\ FreshVoteMeta("InitiationVote"))
    /\ TimedOut("MilestoneVote") =>
          \A did \in Administrators :
             ENABLED (submit_milestone_report(did, "p1") /\ FreshVoteMeta("MilestoneVote"))
    /\ TimedOut("DelayVote") =>
          \A did \in Administrators :
             ENABLED (submit_delay_report(did, "p1") /\ FreshVoteMeta("DelayVote"))

\* a vote of the initiation timed out and a second row waits for the same
\* stage
C24_Witness ==
    \E i, j \in 1..Len(vote_meta) :
        /\ i < j
        /\ vote_meta[i].proposal_state = "InitiationVote"
        /\ vote_meta[i].state = "Timeout"
        /\ vote_meta[j].proposal_state = "InitiationVote"
        /\ vote_meta[j].state = "Waiting"

\* the snapshot ids a proof is asked for: the day and a day without snapshot
ProofIds == {Day, "2024-12-31"}

\* C25: get_proof answers (root, proof) exactly when the snapshot exists and
\* the lock hash of the address is one of its members; the root is the stored
\* root_hash and the proof verifies against it; a non-member gets "Not in the
\* whitelist" and an unknown id the row-not-found error of the query.
C25_ProofIffMember ==
    \A whitelist_id \in ProofIds, ckb_addr \in Addresses :
        LET r == get_proof(whitelist, whitelist_id, ckb_addr)
            exists == whitelist_id \in DOMAIN whitelist
            parsed == IsSome(LockHash(ckb_addr))
            member == exists /\ parsed
                        /\ Unwrap(LockHash(ckb_addr)) \in Range(whitelist[whitelist_id].list)
        IN  /\ r.ok <=> member
            /\ r.ok => /\ r.root = whitelist[whitelist_id].root_hash
                       /\ verify(r.proof, whitelist[whitelist_id].root_hash,
                                 Unwrap(LockHash(ckb_addr)))
            /\ ~exists => r.err = "RowNotFound"
            /\ (exists /\ parsed /\ ~member) => r.err = "Not in the whitelist"

\* the snapshot of the day holds h1 and not h2: the proof of one address is
\* handed out and the other is refused
C25_Witness ==
    /\ Day \in DOMAIN whitelist
    /\ Range(whitelist[Day].list) = {"h1"}
    /\ get_proof(whitelist, Day, "ckt1-a1").ok
    /\ ~get_proof(whitelist, Day, "ckt1-a2").ok

\* C26: a snapshot row, once stored for its id, keeps its member list and its
\* root hash through every later build.
C26_SnapshotImmutable ==
    [][\A id \in DOMAIN whitelist :
          /\ id \in DOMAIN whitelist'
          /\ whitelist'[id].list = whitelist[id].list
          /\ whitelist'[id].root_hash = whitelist[id].root_hash]_vars

TimestampOffsets == {-301, -300, -299, 0, 299, 300, 301}

\* the signed bodies a client can send when the clock shows `seconds`
SignedBodies(seconds) ==
    [timestamp : {Some(seconds + o) : o \in TimestampOffsets} \cup {None},
     signing_key_did : SigningKeys \cup {""},
     signature_valid : BOOLEAN]

\* C28: a request whose timestamp is more than 300 seconds from the clock of
\* the server, before or after it, is refused with the timestamp error
\* whatever its key and signature are; a timestamp 301 seconds old or 301
\* seconds ahead is refused; a timestamp 299 seconds old with the key of the
\* DID document and a valid signature is accepted.
C28_TimestampWindow ==
    \A fraction \in Fractions, did_doc \in DidDocuments :
        LET now_millis == ServerMillis(now, fraction)
            seconds == ClockBase + now * 60
        IN  \A body \in SignedBodies(seconds) :
              LET r == verify_signature(now_millis, body, did_doc)
                  far == \/ body.timestamp = None
                         \/ /\ body.timestamp # None
                            /\ LET t == Unwrap(body.timestamp) * 1000
                               IN  \/ now_millis - t > SignatureWindow * 1000
                                   \/ t - now_millis > SignatureWindow * 1000
              IN  /\ far => r = "timestamp is invalid"
                  /\ body.timestamp \in {Some(seconds - 301), Some(seconds + 301)} => r # "Ok"
                  /\ (/\ body.timestamp = Some(seconds - 299)
                      /\ did_doc = Some(body.signing_key_did)
                      /\ body.signing_key_did \in SigningKeys
                      /\ body.signature_valid) => r = "Ok"
                  /\ r = "timestamp is invalid" => far

\* the clock has advanced; a request 299 seconds old with the right key and
\* signature passes and the same request 301 seconds old or ahead does not
C28_Witness ==
    /\ now > 0
    /\ LET seconds == ClockBase + now * 60
           body(t) == [timestamp |-> Some(t), signing_key_did |-> "did:key:zQ3sh",
                       signature_valid |-> TRUE]
       IN  /\ verify_signature(ServerMillis(now, 500), body(seconds - 299),
                               Some("did:key:zQ3sh")) = "Ok"
           /\ verify_signature(ServerMillis(now, 500), body(seconds - 301),
                               Some("did:key:zQ3sh")) = "timestamp is invalid"
           /\ verify_signature(ServerMillis(now, 500), body(seconds + 301),
                               Some("did:key:zQ3sh")) = "timestamp is invalid"

\* C29: a poll of a row that is Waiting and carries a transaction hash sets
\* it to Rejected when the node reports Rejected, to Timeout when the node
\* reports Unknown more than GraceMinutes after the row was created, and
\* leaves the table untouched for Pending, Proposed and Unknown within the
\* grace period; Timeout is written in no other case.
C29_PollDecision ==
    [][\A r \in TxRunners, tx_status \in TxStatuses, db_ok \in BOOLEAN :
         \A tx \in {None} \cup {chain_tx[h] : h \in TxHashes} :
            (/\ TxPoll(r, tx_status, tx, db_ok)
             /\ vote_meta[Head(txrun[r].rows).id].state = "Waiting")
              => LET row == Head(txrun[r].rows)
                     elapsed == now - row.created
                     after == vote_meta'[row.id].state
                 IN  /\ tx_status = "Rejected" => after = "Rejected"
                     /\ (tx_status = "Unknown" /\ elapsed > GraceMinutes)
                           => after = "Timeout"
                     /\ (\/ tx_status \in {"Pending", "Proposed"}
                         \/ tx_status = "Unknown" /\ elapsed <= GraceMinutes)
                           => vote_meta' = vote_meta
                     /\ after = "Timeout"
                           => tx_status = "Unknown" /\ elapsed > GraceMinutes]_vars

\* a row with a transaction hash timed out in the first minute after the
\* grace period
C29_Witness ==
    \E i \in 1..Len(vote_meta) :
        /\ vote_meta[i].state = "Timeout"
        /\ IsSome(vote_meta[i].tx_hash)
        /\ now - vote_meta[i].created = GraceMinutes + 1

\* C30: when the transaction of a row is committed with the bytes that
\* create_vote_tx handed out for the row, the poll of check_vote_meta_tx that
\* sees it committed sets the row to Committed, whatever builds of the
\* whitelist came in between.
C30_HandedOutBytesCommit ==
    [][\A r \in TxRunners :
         \A tx \in {chain_tx[h] : h \in TxHashes} :
            (/\ TxPoll(r, "Committed", tx, TRUE)
             /\ vote_meta[Head(txrun[r].rows).id].state = "Waiting"
             /\ tx = Some(HandedOut(Head(txrun[r].rows))))
              => vote_meta'[Head(txrun[r].rows).id].state = "Committed"]_vars

\* C31: the tx_hash of a VoteMeta that has left Waiting never changes.
C31_TxHashFrozen ==
    [][\A i \in 1..Len(vote_meta) :
          vote_meta[i].state # "Waiting"
             => vote_meta'[i].tx_hash = vote_meta[i].tx_hash]_vars

\* C32: with the jobs scheduled fairly, every VoteMeta that is Waiting
\* eventually is not: it becomes Committed, Changed, Rejected or Timeout.
\* The property is stated for a row whose grace period has run out, so that
\* a transaction unknown to the node is no reason to wait.
C32_WaitingEventuallyLeaves ==
    \A i \in 1..MaxMetas :
        (/\ i \in 1..Len(vote_meta)
         /\ vote_meta[i].state = "Waiting"
         /\ now - vote_meta[i].created > GraceMinutes)
           ~> (i \in 1..Len(vote_meta) /\ vote_meta[i].state # "Waiting")

\* C33: a proposal in a vote stage has a VoteMeta for that stage that is
\* Committed or Finished.
C33_VoteStageHasCommittedMeta ==
    \A uri \in DOMAIN proposal :
        proposal[uri].state \in VoteStages
           => MetaIds(uri, proposal[uri].state, "Committed")
                 \cup MetaIds(uri, proposal[uri].state, "Finished") # {}

\* C34: send_funds on a proposal in WaitingForStartFund moves it to
\* InProgress when the record declares a milestone and to
\* WaitingForAcceptanceReport when it declares none; progress is unchanged.
C34_StartFundBranches ==
    [][\A did \in Dids :
          (/\ "p1" \in DOMAIN proposal
           /\ proposal["p1"].state = "WaitingForStartFund"
           /\ send_funds(did, "p1"))
             => /\ proposal'["p1"].state =
                      IF proposal["p1"].record.milestones > 0
                      THEN "InProgress" ELSE "WaitingForAcceptanceReport"
                /\ proposal'["p1"].progress = proposal["p1"].progress]_vars

\* the start fund was sent for a proposal without milestones
C34_Witness ==
    /\ "p1" \in DOMAIN proposal
    /\ proposal["p1"].state = "WaitingForAcceptanceReport"
    /\ proposal["p1"].record.milestones = 0
    /\ proposal["p1"].progress = 0

\* C35: send_funds on a proposal in WaitingForMilestoneFund moves it to
\* InProgress with progress + 1 when the record declares a milestone at index
\* progress + 1, and to WaitingForAcceptanceReport with progress unchanged
\* otherwise
MilestoneFundBranches ==
    [][\A did \in Dids :
          (/\ "p1" \in DOMAIN proposal
           /\ proposal["p1"].state = "WaitingForMilestoneFund"
           /\ send_funds(did, "p1"))
             => IF proposal["p1"].progress + 1 < proposal["p1"].record.milestones
                THEN /\ proposal'["p1"].state = "InProgress"
                     /\ proposal'["p1"].progress = proposal["p1"].progress + 1
                ELSE /\ proposal'["p1"].state = "WaitingForAcceptanceReport"
                     /\ proposal'["p1"].progress = proposal["p1"].progress]_vars

\* C35: consequently the progress of a proposal never exceeds the index of
\* the last milestone its record declares (and stays 0 when the record
\* declares none)
C35_ProgressWithinMilestones ==
    \A uri \in DOMAIN proposal :
        \/ proposal[uri].progress = 0
        \/ proposal[uri].progress < proposal[uri].record.milestones

\* the sum of the weights of a sequence of <<address, weight>> pairs
RECURSIVE PairWeight(_)
PairWeight(pairs) ==
    IF pairs = << >> THEN Zero ELSE Add(Head(pairs)[2], PairWeight(Tail(pairs)))

RECURSIVE SumOf(_)
SumOf(weights) ==
    IF weights = << >> THEN Zero ELSE Add(Head(weights), SumOf(Tail(weights)))

RECURSIVE SumLen(_)
SumLen(lists) ==
    IF lists = << >> THEN 0 ELSE Len(Head(lists)) + SumLen(Tail(lists))

\* a tally whose valid sums are the sums over the candidates
ConsistentTally(results) ==
    /\ results.valid_weight_sum = SumOf(results.candidate_votes)
    /\ results.valid_vote_sum = SumLen(results.valid_votes)
    /\ Geq(results.weight_sum, results.valid_weight_sum)
    /\ results.vote_sum >= results.valid_vote_sum
    /\ \A k \in 1..Len(results.candidate_votes) :
          PairWeight(results.valid_votes[k]) = results.candidate_votes[k]

\* C36: in every tally of check_vote_meta_finished a ballot counts toward
\* valid_vote_sum, valid_weight_sum and a candidate only if its index is one
\* of the candidates (every ballot counts toward vote_sum and weight_sum), and
\* every stored tally has valid_weight_sum equal to the sum of the candidate
\* weights, valid_weight_sum <= weight_sum, valid_vote_sum <= vote_sum and
\* each candidate's voter breakdown summing to the candidate's weight
C36_TallyCountsRecognized ==
    [][/\ \A i \in 1..Len(vote_meta') :
             IsSome(vote_meta'[i].results) => ConsistentTally(Unwrap(vote_meta'[i].results))
       /\ (finrun[1].pc = "tally" /\ finrun'[1].pc = "verdict") =>
             \A votes \in TallyVoteLists : \A failed \in WeightFailures(votes) :
                 FinTally(1, votes, failed) =>
                     LET counted == WeightOrZero(votes, failed)
                         on(k) == {j \in 1..Len(votes) : votes[j].voteIndex = k}
                         recognized == UNION {on(k) : k \in 0..(Len(Candidates) - 1)}
                         results == Unwrap(vote_meta'[1].results)
                     IN  /\ results.vote_sum = Len(votes)
                         /\ results.weight_sum = TotalWeight(counted)
                         /\ results.valid_vote_sum = Cardinality(recognized)
                         /\ \A k \in 0..(Len(Candidates) - 1) :
                               /\ Len(results.valid_votes[k + 1]) = Cardinality(on(k))
                               /\ \A j \in on(k) :
                                     \E n \in 1..Len(results.valid_votes[k + 1]) :
                                         results.valid_votes[k + 1][n]
                                             = <<votes[j].ckbAddress, counted[j].weight>>]_vars

\* a stored tally with a ballot outside the candidates and one inside
C36_Witness ==
    /\ Len(vote_meta) >= 1
    /\ IsSome(vote_meta[1].results)
    /\ Unwrap(vote_meta[1].results).vote_sum = 2
    /\ Unwrap(vote_meta[1].results).valid_vote_sum = 1
    /\ Unwrap(vote_meta[1].results).weight_sum = Add(Q1, One)
    /\ Unwrap(vote_meta[1].results).valid_weight_sum = One

\* C37: the verdict of a tally is Failed only by the below-quorum rule of an
\* InitiationVote or ReexamineVote; for a MilestoneVote, DelayVote or
\* RectificationVote it is Agree or Against, whatever the record contains
C37_FailedOnlyBelowQuorum ==
    \A i \in 1..Len(vote_meta), overflow_checks \in BOOLEAN :
        IsSome(vote_meta[i].results)
            => LET record == proposal["p1"].record
                   stage == vote_meta[i].proposal_state
                   results == Unwrap(vote_meta[i].results)
                   verdict == calculate_vote_result(stage, record, results, overflow_checks)
               IN  /\ stage \in {"MilestoneVote", "DelayVote", "RectificationVote"}
                         => verdict \in {"Agree", "Against"}
                   /\ verdict = "Failed"
                         => /\ stage \in {"InitiationVote", "ReexamineVote"}
                            /\ ReadableBudget(record)
                            /\ Lt(results.valid_weight_sum,
                                  ExactQuorum(record, Q1, InitiationBudgetFactor))

\* C38: for every tally of a budget-scaled proposal, the quorum the verdict
\* compares with (budget x 3 x 10^8 for an InitiationVote or ReexamineVote,
\* budget x 10^8 for the other stages) is the exact product: the 64-bit
\* multiplication neither overflows nor wraps
C38_QuorumProductExact ==
    \A i \in 1..Len(vote_meta), overflow_checks \in BOOLEAN :
        LET record == proposal["p1"].record
            factor == IF vote_meta[i].proposal_state \in {"InitiationVote", "ReexamineVote"}
                      THEN InitiationBudgetFactor ELSE OtherBudgetFactor
        IN  (/\ IsSome(vote_meta[i].results)
             /\ record.proposalType # "BudgetProposal"
             /\ IsSome(record.budget))
                => U64Mul(Unwrap(record.budget), factor, overflow_checks)
                      = Some(Mul(Unwrap(record.budget), factor))

\* C39: vote_result returns Voting exactly when the VoteMeta has no tally;
\* a VoteMeta with a tally never reads as Voting
C39_VotingIffNoTally ==
    \A i \in 1..Len(vote_meta), overflow_checks \in BOOLEAN :
        (vote_result(vote_meta[i], proposal["p1"].record, overflow_checks) = "Voting")
            <=> ~IsSome(vote_meta[i].results)

\* C40: a ballot leaves Waiting only in a poll of check_vote_tx: to Committed
\* on a committed transaction, to Rejected on a rejected one, to Timeout on
\* one unknown for more than three minutes after the ballot was created; a
\* ballot that has left Waiting never changes again, and the voter, the
\* vote_meta_id and the candidate index of a ballot never change
C40_BallotLeavesWaitingOnce ==
    [][\A i \in 1..Len(vote) :
          /\ i \in 1..Len(vote')
          /\ vote'[i].voter = vote[i].voter
          /\ vote'[i].vote_meta_id = vote[i].vote_meta_id
          /\ vote'[i].candidates_index = vote[i].candidates_index
          /\ vote[i].state # "Waiting" => vote'[i].state = vote[i].state
          /\ (vote[i].state = "Waiting" /\ vote'[i].state # "Waiting")
                => /\ \E r \in VoteRunners, db_ok \in BOOLEAN : VotePoll(r, TRUE, db_ok)
                   /\ IsSome(vote[i].tx_hash)
                   /\ LET tx_status == vote_tx[Unwrap(vote[i].tx_hash)]
                      IN  \/ vote'[i].state = "Committed" /\ tx_status = "Committed"
                          \/ vote'[i].state = "Rejected" /\ tx_status = "Rejected"
                          \/ /\ vote'[i].state = "Timeout"
                             /\ tx_status = "Unknown"
                             /\ now - vote[i].created > GraceMinutes]_vars

====
